---- MODULE Spec2Model ----
(***************************************************************************)
(* A model of the aggregation / caching / analytics pipeline of           *)
(* RwaDealTracker: the two-tier TTL cache and its decorator               *)
(* (utils/cache_utils.py), the parallel multi-source fetch                 *)
(* (utils/data_aggregator.py) and the financial engine                     *)
(* (utils/financial_analysis.py).                                          *)
(*                                                                         *)
(* Each subsystem has its own specification over the shared variables:     *)
(*   SpecCache  the cache tiers and the decorator, one call at a time      *)
(*   SpecKey    the decorator's cache key, over two invocations            *)
(*   SpecFetch  DataAggregator.fetch_properties and its worker threads     *)
(*   SpecShared two concurrent calls of fetch_properties on one            *)
(*              DataAggregator                                             *)
(*   SpecMem    MemoryCache under concurrent threads, statement by         *)
(*              statement                                                  *)
(*   SpecDisk   DiskCache under concurrent threads, system call by system  *)
(*              call                                                       *)
(*   SpecFin    the entry points of FinancialAnalysis                      *)
(*   SpecList   DataAggregator.filter_properties and sort_properties       *)
(***************************************************************************)
EXTENDS Integers, Sequences, FiniteSets, TLC

(***************************************************************************)
(* Bounds of the model.                                                    *)
(***************************************************************************)
\* the clock runs from 0 to MaxTime
MaxTime == 2
\* a source returns at most MaxResults records (max_results_per_source)
MaxResults == 2

(***************************************************************************)
(* Values.  Python's None is the string "None"; the other values stand     *)
(* for picklable results of a wrapped operation (lists of records).  The   *)
(* empty list [] is a value like any other for the cache: only None is     *)
(* special to the decorator.                                               *)
(***************************************************************************)
None == "None"
Values == {"[]", "[p1]"}
Results == Values \cup {None}
\* the searches whose keys the cache specifications use, and the TTLs
CacheKeys == {1, 2}
TTLs == {1, 2}

\* @cache(ttl=3600, use_disk=True) of search_properties; the unit of time of
\* the model is 3600 seconds
SearchTTL == 1

VARIABLES
    now,        \* time.time()
    use_disk,   \* the decorator's use_disk argument
    _cache,     \* MemoryCache._cache: key -> (value, expiry), a dict
    files,      \* the files of CACHE_DIR: path -> content
    last,       \* the last cache call made and what it returned
    inv1,       \* SpecKey: the first invocation of a cached operation
    inv2,       \* SpecKey: the second invocation
    kpc,        \* SpecKey: how many of the two have been made
    heap,       \* the list objects: reference -> sequence of records
    all_properties, \* DataAggregator.all_properties: a reference
    callers,    \* the fetch_properties calls made on the aggregator
    fpc,        \* per call: where the calling thread is in fetch_properties
    ptypes,     \* per call: the property_types argument
    params,     \* per call: location, min_price, max_price, max_results_per_source
    futures,    \* per call: future_to_source, the future of each source
    order,      \* per call: the sources in the order as_completed gave them
    returned,   \* per call: the reference returned (0 before the return)
    threads,    \* per thread: where it is in a MemoryCache/DiskCache method
    property_data,  \* the Property handed to the financial engine
    analysis,   \* the last call of the financial engine and its outcome
    given,      \* how the Property came about, and the fields it was made from
    browse      \* the last call of sort_properties or filter_properties

cacheVars == <<now, use_disk, _cache, files, last>>
keyVars == <<inv1, inv2, kpc>>
fetchVars ==
    <<heap, all_properties, callers, fpc, ptypes, params, futures, order, returned>>

threadVars == <<threads>>
finVars == <<property_data, analysis, given>>
listVars == <<browse>>

vars == <<cacheVars, keyVars, fetchVars, threadVars, finVars, listVars>>

(***************************************************************************)
(* Dictionaries and directories are functions whose domain is the set of   *)
(* keys (paths) present.                                                   *)
(***************************************************************************)
EmptyMap == [x \in {} |-> None]
Remove(f, k) == [x \in (DOMAIN f) \ {k} |-> f[x]]
Put(f, k, v) == [x \in (DOMAIN f) \cup {k} |-> IF x = k THEN v ELSE f[x]]

\* what a get or a set hands back: the new store, the value returned, and
\* the exception that left the call, if any ("" when none did)
Outcome(store, ret, raised) == [store |-> store, ret |-> ret, raised |-> raised]

(***************************************************************************)
(* MemoryCache                                                             *)
(***************************************************************************)
MemEntry(value, expiry) == [kind |-> "entry", value |-> value, expiry |-> expiry]

\* MemoryCache.get keeping an entry through its expiry instant (>= for >)
MemoryCache_get_inclusive(c, key, t) ==
    IF key \in DOMAIN c
    THEN IF c[key].expiry >= t
         THEN Outcome(c, c[key].value, "")
         ELSE Outcome(Remove(c, key), None, "")
    ELSE Outcome(c, None, "")

MemoryCache_get(c, key, t) ==
    IF key \in DOMAIN c
    THEN IF c[key].expiry > t
         THEN Outcome(c, c[key].value, "")
         ELSE Outcome(Remove(c, key), None, "")
    ELSE Outcome(c, None, "")

MemoryCache_set(c, key, value, ttl_, t) ==
    Outcome(Put(c, key, MemEntry(value, t + ttl_)), None, "")

MemoryCache_clear(c) == Outcome(EmptyMap, None, "")

(***************************************************************************)
(* DiskCache.  A file holds either a complete pickle of (value, expiry),   *)
(* or what an interrupted write left: nothing at all or a prefix cut at an *)
(* opcode boundary (pickle.load raises EOFError, "Ran out of input"), or   *)
(* a prefix cut inside an opcode's argument (pickle.load raises            *)
(* UnpicklingError, "pickle data was truncated").                          *)
(***************************************************************************)
Pickle(value, expiry) == [kind |-> "pickle", value |-> value, expiry |-> expiry]
RanOutOfInput == [kind |-> "ran_out_of_input"]
TruncatedData == [kind |-> "truncated_data"]
CorruptContents == {RanOutOfInput, TruncatedData}

\* hashlib.md5(key).hexdigest() + ".cache" in CACHE_DIR: one path per key
\* (md5 collisions are outside the model)
get_cache_path(key) == <<".cache", key, "cache">>

\* the exceptions DiskCache catches: (pickle.PickleError, IOError)
Caught == {"UnpicklingError", "PicklingError", "IOError"}

\* pickle.load(f) on a file's content: the pair read, or the exception
pickle_load(content) ==
    CASE content.kind = "pickle" -> [ok |-> TRUE, exc |-> ""]
      [] content.kind = "ran_out_of_input" -> [ok |-> FALSE, exc |-> "EOFError"]
      [] content.kind = "truncated_data" -> [ok |-> FALSE, exc |-> "UnpicklingError"]

\* fault: "none", or "io" when open() fails with an IOError
DiskCache_get(fs, key, t, fault) ==
    LET cache_path == get_cache_path(key) IN
    IF cache_path \in DOMAIN fs
    THEN IF fault = "io"
         THEN Outcome(fs, None, "")
         ELSE LET r == pickle_load(fs[cache_path]) IN
              IF r.ok
              THEN IF fs[cache_path].expiry > t
                   THEN Outcome(fs, fs[cache_path].value, "")
                   ELSE Outcome(Remove(fs, cache_path), None, "")
              ELSE IF r.exc \in Caught
                   THEN Outcome(fs, None, "")
                   ELSE Outcome(fs, None, r.exc)
    ELSE Outcome(fs, None, "")

\* fault: "none"; "open" when open(cache_path, 'wb') fails; "write_empty" or
\* "write_cut" when the write fails after open() truncated the file, leaving
\* it empty or cut.  All of them are IOErrors, caught and logged.
SetFaults == {"none", "open", "write_empty", "write_cut"}

DiskCache_set(fs, key, value, ttl_, t, fault) ==
    LET cache_path == get_cache_path(key)
        expiry == t + ttl_ IN
    CASE fault = "none" -> Outcome(Put(fs, cache_path, Pickle(value, expiry)), None, "")
      [] fault = "open" -> Outcome(fs, None, "")
      [] fault = "write_empty" -> Outcome(Put(fs, cache_path, RanOutOfInput), None, "")
      [] fault = "write_cut" -> Outcome(Put(fs, cache_path, TruncatedData), None, "")

DiskCache_clear(fs) == Outcome(EmptyMap, None, "")

(***************************************************************************)
(* The cache key of the decorator.  A Python string is the sequence of its *)
(* characters; an identifier or a fixed piece of a repr that contains      *)
(* neither ':' nor '=' is kept as one symbol.                              *)
(***************************************************************************)
PyStr(s) == [type |-> "str", s |-> s]
PyInt(n) == [type |-> "int", n |-> n]
PyNone == [type |-> "NoneType"]
\* an object of a class that defines no __str__/__repr__, at an address
PyObject(cls, addr) == [type |-> "object", cls |-> cls, addr |-> addr]

Digits == <<"0", "1", "2", "3", "4", "5", "6", "7", "8", "9">>

\* the decimal digits of n >= 0
RECURSIVE decimal(_)
decimal(n) ==
    IF n < 10 THEN <<Digits[n + 1]>> ELSE decimal(n \div 10) \o <<Digits[(n % 10) + 1]>>

\* str(v)
str(v) ==
    CASE v.type = "str" -> v.s
      [] v.type = "int" -> IF v.n < 0 THEN <<"-">> \o decimal(-v.n) ELSE decimal(v.n)
      [] v.type = "NoneType" -> <<"N", "o", "n", "e">>
      [] v.type = "object" -> <<"<", v.cls, " object at 0x", Digits[v.addr + 1], ">">>

\* sep.join(parts)
RECURSIVE join(_, _)
join(sep, parts) ==
    IF Len(parts) = 0 THEN <<>>
    ELSE IF Len(parts) = 1 THEN parts[1]
    ELSE parts[1] \o sep \o join(sep, Tail(parts))

\* the keyword names of the model, in sorted() order
KwNames == <<"k", "location", "max_price", "max_results", "min_price">>
KwIndex(name) == CHOOSE i \in 1..Len(KwNames) : KwNames[i] = name

\* sorted(kwargs.items()): the names present, in increasing order
RECURSIVE sorted_items(_)
sorted_items(kwargs) ==
    IF DOMAIN kwargs = {} THEN <<>>
    ELSE LET k == CHOOSE n \in DOMAIN kwargs :
                      \A m \in DOMAIN kwargs : KwIndex(n) <= KwIndex(m)
         IN <<<<k, kwargs[k]>>>> \o sorted_items(Remove(kwargs, k))

\* an invocation wrapper(*args, **kwargs) of the decorated function `name`;
\* for a method, args[1] is self
Invocation(name, args, kwargs) == [name |-> name, args |-> args, kwargs |-> kwargs]

\* key_parts and ":".join(key_parts)
cache_key(inv) ==
    LET items == sorted_items(inv.kwargs)
        key_parts == <<<<inv.name>>>>
                     \o [i \in 1..Len(inv.args) |-> str(inv.args[i])]
                     \o [i \in 1..Len(items) |-> <<items[i][1], "=">> \o str(items[i][2])]
    IN join(<<":">>, key_parts)

(***************************************************************************)
(* The decorator's wrapper, given the key.  result is what func returns if *)
(* it is called; gfault and sfault are the I/O faults met by the get and   *)
(* by the set (disk tier only).                                            *)
(***************************************************************************)
handler_get(c, fs, disk, key, t, gfault) ==
    IF disk THEN DiskCache_get(fs, key, t, gfault) ELSE MemoryCache_get(c, key, t)

handler_set(c, fs, disk, key, value, ttl_, t, sfault) ==
    IF disk THEN DiskCache_set(fs, key, value, ttl_, t, sfault)
    ELSE MemoryCache_set(c, key, value, ttl_, t)

handler_clear(c, fs, disk) ==
    IF disk THEN DiskCache_clear(fs) ELSE MemoryCache_clear(c)

\* the store of the tier in use
Store(c, fs, disk) == IF disk THEN fs ELSE c

\* the truth value of a Python value: None and the empty list are false
Truthy(v) == v \notin {None, "[]"}

\* the wrapper testing "if cached_value:" for "if cached_value is not None:"
wrapper_truthy(c, fs, disk, ttl_, key, t, result, gfault, sfault) ==
    LET got == handler_get(c, fs, disk, key, t, gfault) IN
    IF got.raised # ""
    THEN [store |-> got.store, ret |-> None, raised |-> got.raised, invoked |-> 0]
    ELSE IF Truthy(got.ret)
    THEN [store |-> got.store, ret |-> got.ret, raised |-> "", invoked |-> 0]
    ELSE LET c2 == IF disk THEN c ELSE got.store
             fs2 == IF disk THEN got.store ELSE fs
             put == handler_set(c2, fs2, disk, key, result, ttl_, t, sfault)
         IN [store |-> put.store, ret |-> result, raised |-> put.raised, invoked |-> 1]

wrapper(c, fs, disk, ttl_, key, t, result, gfault, sfault) ==
    LET got == handler_get(c, fs, disk, key, t, gfault) IN
    IF got.raised # ""
    THEN [store |-> got.store, ret |-> None, raised |-> got.raised, invoked |-> 0]
    ELSE IF got.ret # None
    THEN [store |-> got.store, ret |-> got.ret, raised |-> "", invoked |-> 0]
    ELSE LET c2 == IF disk THEN c ELSE got.store
             fs2 == IF disk THEN got.store ELSE fs
             put == handler_set(c2, fs2, disk, key, result, ttl_, t, sfault)
         IN [store |-> put.store, ret |-> result, raised |-> put.raised, invoked |-> 1]

(***************************************************************************)
(* SpecCache: the cache used by one caller at a time.  The tier of the     *)
(* decorated operation is fixed when it is decorated; the                  *)
(* decorated operation is search_properties of one scraper, called the way *)
(* the aggregator calls it, and the cache is also used directly through    *)
(* get, set and clear.                                                     *)
(***************************************************************************)
Location(i) == PyStr(<<"c", Digits[i + 1]>>)

\* self.zillow_scraper.search_properties(location=..., min_price=...,
\*     max_price=..., max_results=...)
SearchCall(self, location) ==
    Invocation("search_properties", <<self>>,
               [k \in {"location", "max_price", "max_results", "min_price"} |->
                   CASE k = "location" -> location
                     [] k = "max_results" -> PyInt(20)
                     [] OTHER -> PyNone])

TheScraper == PyObject("scrapers.zillow_scraper.ZillowScraper", 1)

KeyTable == [i \in CacheKeys |-> cache_key(SearchCall(TheScraper, Location(i)))]
KeyOf(i) == KeyTable[i]

Absent == [kind |-> "absent"]

\* what the tier in use holds for the key
Lookup(c, fs, disk, key) ==
    IF disk
    THEN IF get_cache_path(key) \in DOMAIN fs THEN fs[get_cache_path(key)] ELSE Absent
    ELSE IF key \in DOMAIN c THEN c[key] ELSE Absent

\* last describes the step that led to the current state: the operation, its
\* key, what the tier held for the key before it (pre), the value returned,
\* the exception raised, how often func was invoked, what func returns
\* (result), and the faults met
NoCall ==
    [op |-> "none", key |-> <<>>, pre |-> Absent,
     ret |-> None, raised |-> "", invoked |-> 0, result |-> None,
     gfault |-> "none", sfault |-> "none"]

GetFaults == {"none", "io"}

\* the variables of the other specifications, at rest
NoInvocation == Invocation("", <<>>, EmptyMap)
IdleKey == inv1 = NoInvocation /\ inv2 = NoInvocation /\ kpc = 0
IdleFetch ==
    /\ heap = <<>>
    /\ all_properties = 0
    /\ callers = {}
    /\ fpc = <<>>
    /\ ptypes = <<>>
    /\ params = <<>>
    /\ futures = <<>>
    /\ order = <<>>
    /\ returned = <<>>
IdleThreads == threads = <<>>
IdleFin == property_data = <<>> /\ analysis = <<>> /\ given = <<>>
IdleList == browse = <<>>
notCache == <<keyVars, fetchVars, threadVars, finVars, listVars>>

InitCache ==
    /\ IdleKey
    /\ IdleFetch
    /\ IdleThreads
    /\ IdleFin
    /\ IdleList
    /\ now = 0
    /\ use_disk \in BOOLEAN
    /\ _cache = EmptyMap
    /\ files = EmptyMap
    /\ last = NoCall

\* the store of the tier in use becomes s
SetStore(s) ==
    /\ _cache' = IF use_disk THEN _cache ELSE s
    /\ files' = IF use_disk THEN s ELSE files

Tick ==
    /\ now < MaxTime
    /\ now' = now + 1
    /\ last' = [NoCall EXCEPT !.op = "tick"]
    /\ UNCHANGED <<use_disk, _cache, files, notCache>>

Get(i, gfault) ==
    /\ use_disk \/ gfault = "none"
    /\ LET key == KeyOf(i)
           got == handler_get(_cache, files, use_disk, key, now, gfault)
       IN /\ SetStore(got.store)
          /\ last' = [NoCall EXCEPT !.op = "get", !.key = key, !.pre = Lookup(_cache, files, use_disk, key),
                         !.ret = got.ret, !.raised = got.raised, !.gfault = gfault]
    /\ UNCHANGED <<now, use_disk, notCache>>

Set(i, value, ttl_, sfault) ==
    /\ use_disk \/ sfault = "none"
    /\ LET key == KeyOf(i)
           put == handler_set(_cache, files, use_disk, key, value, ttl_, now, sfault)
       IN /\ SetStore(put.store)
          /\ last' = [NoCall EXCEPT !.op = "set", !.key = key, !.pre = Lookup(_cache, files, use_disk, key),
                         !.raised = put.raised, !.result = value, !.sfault = sfault]
    /\ UNCHANGED <<now, use_disk, notCache>>

Clear ==
    /\ SetStore(handler_clear(_cache, files, use_disk).store)
    /\ last' = [NoCall EXCEPT !.op = "clear"]
    /\ UNCHANGED <<now, use_disk, notCache>>

\* a call of the decorated operation, which returns result if it is invoked
Call(i, result, gfault, sfault) ==
    /\ use_disk \/ (gfault = "none" /\ sfault = "none")
    /\ LET key == KeyOf(i)
           w == wrapper(_cache, files, use_disk, SearchTTL, key, now, result, gfault, sfault)
       IN /\ SetStore(w.store)
          /\ last' = [op |-> "call", key |-> key,
                      pre |-> Lookup(_cache, files, use_disk, key),
                      ret |-> w.ret, raised |-> w.raised, invoked |-> w.invoked,
                      result |-> result, gfault |-> gfault, sfault |-> sfault]
    /\ UNCHANGED <<now, use_disk, notCache>>

NextCache ==
    \/ Tick
    \/ \E i \in CacheKeys, gfault \in GetFaults : Get(i, gfault)
    \/ \E i \in CacheKeys, value \in Results, ttl_ \in TTLs, sfault \in SetFaults :
          Set(i, value, ttl_, sfault)
    \/ Clear
    \/ \E i \in CacheKeys, result \in Results, gfault \in GetFaults,
          sfault \in SetFaults : Call(i, result, gfault, sfault)

SpecCache == InitCache /\ [][NextCache]_vars

(***************************************************************************)
(* SpecKey: two invocations of cached methods of the scrapers, made one    *)
(* after the other through the disk tier, which starts empty.  The first   *)
(* operation returns R1 when it is invoked, the second R2.  Time may pass  *)
(* between the two calls.                                                  *)
(***************************************************************************)
R1 == "[p1]"
R2 == "[p2]"

OperationNames == {"search_properties", "_get_property_details"}
\* two scraper objects: a DataAggregator builds a new ZillowScraper, and
\* app.py builds a new DataAggregator for every search
Scrapers == {PyObject("scrapers.zillow_scraper.ZillowScraper", 1),
             PyObject("scrapers.zillow_scraper.ZillowScraper", 2)}
a_ == PyStr(<<"a">>)
b_ == PyStr(<<"b">>)
\* the positional arguments after self
PositionalArgs == {<<>>, <<a_>>, <<b_>>, <<a_, b_>>,
                   <<PyStr(<<"a", ":", "b">>)>>, <<PyStr(<<"k", "=", "a">>)>>}
KeywordArgs == {EmptyMap} \cup
               {[n \in {"k"} |-> v] : v \in {a_, PyInt(1), PyStr(<<"1">>)}}
KeyInvocations ==
    {Invocation(name, <<self>> \o args, kwargs) :
        name \in OperationNames, self \in Scrapers,
        args \in PositionalArgs, kwargs \in KeywordArgs}

InitKey ==
    /\ IdleFetch
    /\ IdleThreads
    /\ IdleFin
    /\ IdleList
    /\ inv1 \in KeyInvocations
    /\ inv2 \in KeyInvocations
    /\ kpc = 0
    /\ now = 0
    /\ use_disk = TRUE
    /\ _cache = EmptyMap
    /\ files = EmptyMap
    /\ last = NoCall

KeyCall(n, inv, result) ==
    /\ kpc = n - 1
    /\ kpc' = n
    /\ LET key == cache_key(inv)
           w == wrapper(_cache, files, use_disk, SearchTTL, key, now, result,
                        "none", "none")
       IN /\ SetStore(w.store)
          /\ last' = [op |-> "call", key |-> key,
                      pre |-> Lookup(_cache, files, use_disk, key),
                      ret |-> w.ret, raised |-> w.raised, invoked |-> w.invoked,
                      result |-> result, gfault |-> "none", sfault |-> "none"]
    /\ UNCHANGED <<now, use_disk, inv1, inv2, fetchVars, threadVars, finVars, listVars>>

KeyCall1 == KeyCall(1, inv1, R1)
KeyCall2 == KeyCall(2, inv2, R2)

KeyTick ==
    /\ kpc = 1
    /\ now < MaxTime
    /\ now' = now + 1
    /\ UNCHANGED <<use_disk, _cache, files, last, keyVars, fetchVars, threadVars,
                   finVars, listVars>>

NextKey == KeyCall1 \/ KeyCall2 \/ KeyTick

SpecKey == InitKey /\ [][NextKey]_vars

\* the two invocations are of the same operation with equal argument values
\* (self apart)
SameOperationAndArguments ==
    /\ inv1.name = inv2.name
    /\ Tail(inv1.args) = Tail(inv2.args)
    /\ inv1.kwargs = inv2.kwargs

\* C4: two invocations of the same cached operation with equal argument
\* values compute the same key, whatever adapter object they are made on,
\* and so the second, made within the TTL of the first, is a hit.
C4_KeyOfNameAndArguments ==
    (kpc = 2 /\ SameOperationAndArguments)
    => /\ cache_key(inv1) = cache_key(inv2)
       /\ now < SearchTTL => (last.invoked = 0 /\ last.ret = R1)

\* C5: two invocations that differ in the operation name, in a positional
\* argument or in a keyword argument compute different keys, so the second
\* is never served the result cached for the first.
C5_KeysCollisionFree ==
    (kpc = 2 /\ inv1 # inv2)
    => /\ cache_key(inv1) # cache_key(inv2)
       /\ last.ret = R2

(***************************************************************************)
(* Properties of the cache under SpecCache.  last describes the step that  *)
(* led to the current state, so the store of the current state is the      *)
(* store the operation left and now is the time it ran at.                 *)
(***************************************************************************)
Post == Lookup(_cache, files, use_disk, last.key)
Complete(e) == e.kind \in {"entry", "pickle"}
Corrupt(e) == e \in CorruptContents
Unexpired(e, t) == Complete(e) /\ e.expiry > t
Expired(e, t) == Complete(e) /\ e.expiry <= t
Stored(value, expiry) ==
    IF use_disk THEN Pickle(value, expiry) ELSE MemEntry(value, expiry)

\* C2 as stated, for the calls that meet neither an I/O fault nor a corrupt
\* entry: a call whose key has an unexpired entry returns the cached value
\* and does not invoke the wrapped operation; any other call invokes it
\* exactly once, stores its result under the key with the configured TTL and
\* returns that result.
C2_CacheAsideAsStated ==
    (last.op = "call" /\ last.gfault = "none" /\ last.sfault = "none"
        /\ ~Corrupt(last.pre))
    => IF Unexpired(last.pre, now)
       THEN last.invoked = 0 /\ last.ret = last.pre.value
       ELSE /\ last.invoked = 1
            /\ last.ret = last.result
            /\ Post = Stored(last.result, now + SearchTTL)

\* C2, amended: a call whose key has an unexpired entry that is read back
\* and holds a value other than None returns that value, invokes nothing
\* and leaves the entry as it is.  A call whose key has no entry, an expired
\* entry, an unexpired entry holding None, or an entry whose file cannot be
\* opened, invokes the wrapped operation exactly once and returns its
\* result; unless the write meets an I/O error, the result is then stored
\* under the key with expiry now + the configured TTL.
C2_CacheAside ==
    (last.op = "call" /\ ~Corrupt(last.pre))
    => IF Unexpired(last.pre, now) /\ last.pre.value # None /\ last.gfault = "none"
       THEN /\ last.invoked = 0
            /\ last.ret = last.pre.value
            /\ last.raised = ""
            /\ Post = last.pre
       ELSE /\ last.invoked = 1
            /\ last.ret = last.result
            /\ last.raised = ""
            /\ last.sfault = "none" => Post = Stored(last.result, now + SearchTTL)

\* C2's case: a call found an unexpired entry holding None, and invoked the
\* wrapped operation
C2_Witness ==
    /\ last.op = "call"
    /\ Unexpired(last.pre, now)
    /\ last.pre.value = None
    /\ last.invoked = 1
    /\ last.result # None

\* C3: lazy expiry on both tiers.  A get that meets no I/O fault returns the
\* value of an entry read before its expiry instant; at or after the expiry
\* instant it returns None and leaves no entry for the key in the store; and
\* no get, direct or made by the decorator, returns a value whose expiry
\* instant has passed.
C3_LazyExpiry ==
    /\ (last.op = "get" /\ last.gfault = "none" /\ Unexpired(last.pre, now))
        => (last.ret = last.pre.value /\ last.raised = "")
    /\ (last.op = "get" /\ last.gfault = "none" /\ Expired(last.pre, now))
        => (last.ret = None /\ last.raised = "" /\ Post = Absent)
    /\ (last.op = "get" /\ last.ret # None)
        => (Unexpired(last.pre, now) /\ last.ret = last.pre.value)
    /\ (last.op = "call" /\ last.invoked = 0 /\ last.raised = "")
        => (Unexpired(last.pre, now) /\ last.ret = last.pre.value)

\* C3's case: a get read an entry exactly at its expiry instant
C3_Witness ==
    /\ last.op = "get"
    /\ Complete(last.pre)
    /\ last.pre.expiry = now
    /\ last.pre.value # None
    /\ last.ret = None
    /\ Post = Absent

\* C8: a cache failure is a miss.  When the entry of the key cannot be read
\* or deserialized, get returns None without raising and a call of the
\* cached operation invokes the wrapped operation and returns its result;
\* when storing the result fails, the caller still receives the result.
C8_CacheFailureIsMiss ==
    /\ (last.op = "get" /\ (Corrupt(last.pre) \/ last.gfault = "io"))
        => (last.ret = None /\ last.raised = "")
    /\ (last.op = "call" /\ (Corrupt(last.pre) \/ (last.gfault = "io" /\ last.pre # Absent)))
        => (last.raised = "" /\ last.invoked = 1 /\ last.ret = last.result)
    /\ (last.op = "call" /\ last.invoked = 1 /\ last.sfault # "none")
        => (last.raised = "" /\ last.ret = last.result)

\* C8's case: a call found a file cut inside an opcode's argument, and a
\* call's write failed
C8_Witness ==
    /\ last.op = "call"
    /\ last.pre = TruncatedData
    /\ last.sfault = "write_empty"
    /\ last.ret = last.result

\* C27: a failed search is cached like a successful one.  A call whose
\* operation is invoked and returns the empty list stores the empty list
\* under the key with the configured TTL; a call that reads an unexpired
\* entry holding the empty list returns the empty list, invokes nothing
\* and leaves the entry; a call that reads an unexpired entry holding None
\* invokes the operation again.
C27_FailedSearchCached ==
    /\ (last.op = "call" /\ last.invoked = 1 /\ last.result = "[]" /\ last.sfault = "none")
        => (last.ret = "[]" /\ Post = Stored("[]", now + SearchTTL))
    /\ (last.op = "call" /\ last.gfault = "none"
            /\ Unexpired(last.pre, now) /\ last.pre.value = "[]")
        => (last.invoked = 0 /\ last.ret = "[]" /\ last.raised = "" /\ Post = last.pre)
    /\ (last.op = "call" /\ last.gfault = "none"
            /\ Unexpired(last.pre, now) /\ last.pre.value = None)
        => last.invoked = 1

\* C27's case: the entry a search left at time 1 holds the empty list, and
\* a search that would find a record is answered from it
C27_Witness ==
    /\ last.op = "call"
    /\ now = 1
    /\ last.pre = Stored("[]", now + SearchTTL)
    /\ last.result = "[p1]"
    /\ last.invoked = 0
    /\ last.ret = "[]"

(***************************************************************************)
(* DataAggregator.fetch_properties.  Lists are objects, held by reference: *)
(* heap[r] is the content of the list r, self.all_properties is a          *)
(* reference, and so is what fetch_properties returns.                     *)
(***************************************************************************)
\* the sources list, in its order
Sources == <<"Zillow", "LoopNet">>
SourceNames == {Sources[i] : i \in 1..Len(Sources)}

\* a record: its identity (source, id) and its property_type
Prop(source, id, property_type) ==
    [source |-> source, id |-> id, property_type |-> property_type]

\* the records a source may return
Pool(source) ==
    IF source = "Zillow"
    THEN {Prop("Zillow", 1, PyStr(<<"A", "b">>)), Prop("Zillow", 2, PyNone)}
    ELSE {Prop("LoopNet", 1, PyStr(<<"b">>)), Prop("LoopNet", 2, PyStr(<<>>))}

\* the lists of at most MaxResults records of a source
Lists(source) == UNION {[1..n -> Pool(source)] : n \in 0..MaxResults}

\* the property_types argument: None, [], ["a"], ["B"]
PropertyTypeArgs == {PyNone, [type |-> "list", items |-> <<>>],
                     [type |-> "list", items |-> <<<<"a">>>>],
                     [type |-> "list", items |-> <<<<"B">>>>]}

\* what search_properties of a scraper does: it returns the records found
\* ("ok"), it catches its own failure and returns [] ("failed"), or an
\* exception leaves it ("raised": one of the cache, or of building the URL)
SearchKinds == {"ok", "failed", "raised"}
search_properties(kind, records) ==
    [raised |-> kind = "raised", ret |-> IF kind = "ok" THEN records ELSE <<>>]

\* _fetch_from_zillow, _fetch_from_loopnet: except Exception: return []
fetch_from(search) == IF search.raised THEN <<>> ELSE search.ret

\* the search parameters of a call: location, min_price, max_price and
\* max_results_per_source
NoSearch ==
    [location |-> "", min_price |-> PyNone, max_price |-> PyNone, max_results |-> 0]
SearchParams ==
    {[location |-> "c1", min_price |-> PyNone, max_price |-> PyNone,
      max_results |-> MaxResults],
     [location |-> "c2", min_price |-> PyInt(1), max_price |-> PyInt(2),
      max_results |-> MaxResults]}

\* sources[...]["args"] with every source given max_results 20, the default
\* of the fetch functions, for max_results_per_source
source_args_default(source, search) == [search EXCEPT !.max_results = 20]

\* lines 46-51, 57-62: the "args" of a source
source_args(source, search) ==
    [location |-> search.location, min_price |-> search.min_price,
     max_price |-> search.max_price, max_results |-> search.max_results]

\* a future: not yet submitted, pending, running, or finished with the
\* result (or the exception) of its fetch function; search records what
\* the scraper's search_properties did in the task, args the arguments the
\* task was submitted with, submits how often a task was submitted for the
\* source and attempts how often its search was called
NoFuture ==
    [state |-> "none", exception |-> FALSE, result |-> <<>>,
     search |-> [kind |-> "none", records |-> <<>>],
     args |-> NoSearch, submits |-> 0, attempts |-> 0]

\* self.all_properties = properties, for self.all_properties.extend
extend_replace(list, properties) == properties

\* list.extend(properties)
extend(list, properties) == list \o properties

\* the for loop ending after the first future that completes
as_completed_first(futs, done) == done # {}

\* as_completed has given every future of future_to_source
as_completed_done(futs, done) == done = DOMAIN futs

\* ThreadPoolExecutor.__exit__: shutdown(wait=True)
shutdown_wait(futs) == \A i \in DOMAIN futs : futs[i].state = "finished"

\* str.lower() left out: the string as it is
lower_identity(s_) == s_

\* str.lower() over the letters of the model
lower_char(ch) ==
    CASE ch = "A" -> "a" [] ch = "B" -> "b" [] ch = "H" -> "h"
      [] ch = "L" -> "l" [] ch = "M" -> "m" [] OTHER -> ch
lower(s_) == [i \in 1..Len(s_) |-> lower_char(s_[i])]

\* sub in s_
contains(sub, s_) ==
    \E i \in 0..(Len(s_) - Len(sub)) : SubSeq(s_, i + 1, i + Len(sub)) = sub

\* the truth value of a str, a list or None
truth(v) ==
    CASE v.type = "NoneType" -> FALSE
      [] v.type = "str" -> Len(v.s) > 0
      [] v.type = "list" -> Len(v.items) > 0
      [] v.type = "int" -> v.n # 0

\* lines 83-88: the records kept by the property_types filter
type_filter(list, property_types) ==
    LET property_types_lower ==
            [j \in 1..Len(property_types.items) |-> lower(property_types.items[j])]
        keep(p_) ==
            /\ truth(p_.property_type)
            /\ \E j \in 1..Len(property_types_lower) :
                   contains(property_types_lower[j], lower(p_.property_type.s))
    IN SelectSeq(list, keep)

Range(f) == {f[x] : x \in DOMAIN f}

InitFetch ==
    /\ IdleKey
    /\ IdleThreads
    /\ IdleFin
    /\ IdleList
    /\ now = 0 /\ use_disk = TRUE /\ _cache = EmptyMap /\ files = EmptyMap
    /\ last = NoCall
    /\ heap = <<>>
    /\ all_properties = 0
    /\ callers = {1}
    /\ fpc = [c \in callers |-> "idle"]
    /\ ptypes = [c \in callers |-> PyNone]
    /\ params = [c \in callers |-> NoSearch]
    /\ futures = [c \in callers |-> [i \in SourceNames |-> NoFuture]]
    /\ order = [c \in callers |-> <<>>]
    /\ returned = [c \in callers |-> 0]

\* line 40: self.all_properties = []
FetchStart(c, property_types, search) ==
    /\ fpc[c] = "idle"
    /\ heap' = Append(heap, <<>>)
    /\ all_properties' = Len(heap) + 1
    /\ ptypes' = [ptypes EXCEPT ![c] = property_types]
    /\ params' = [params EXCEPT ![c] = search]
    /\ fpc' = [fpc EXCEPT ![c] = "submit"]
    /\ UNCHANGED <<callers, futures, order, returned, cacheVars, keyVars,
                   threadVars, finVars, listVars>>

\* lines 68-71: executor.submit of the next source
Submit(c) ==
    /\ fpc[c] = "submit"
    /\ LET n == CHOOSE k \in 1..Len(Sources) :
                  /\ futures[c][Sources[k]].state = "none"
                  /\ \A j \in 1..(k - 1) : futures[c][Sources[j]].state # "none"
       IN /\ futures' = [futures EXCEPT ![c][Sources[n]] =
                             [@ EXCEPT !.state = "pending",
                                       !.args = source_args(Sources[n], params[c]),
                                       !.submits = @ + 1]]
          /\ fpc' = [fpc EXCEPT ![c] = IF n = Len(Sources) THEN "collect" ELSE "submit"]
    /\ UNCHANGED <<heap, all_properties, callers, ptypes, params, order, returned,
                   cacheVars, keyVars, threadVars, finVars, listVars>>

\* a worker thread of the pool takes the task
TaskStart(c, i) ==
    /\ futures[c][i].state = "pending"
    /\ futures' = [futures EXCEPT ![c][i].state = "running"]
    /\ UNCHANGED <<heap, all_properties, callers, fpc, ptypes, params, order, returned,
                   cacheVars, keyVars, threadVars, finVars, listVars>>

\* the task ends: the fetch function returns
TaskFinish(c, i, kind, records) ==
    /\ futures[c][i].state = "running"
    /\ kind # "ok" => records = <<>>
    /\ futures' = [futures EXCEPT ![c][i] =
                      [@ EXCEPT !.state = "finished",
                                !.result = fetch_from(search_properties(kind, records)),
                                !.search = [kind |-> kind, records |-> records],
                                !.attempts = @ + 1]]
    /\ UNCHANGED <<heap, all_properties, callers, fpc, ptypes, params, order, returned,
                   cacheVars, keyVars, threadVars, finVars, listVars>>

\* lines 73-80: as_completed gives a finished future; its result is added
Collect(c, i) ==
    /\ fpc[c] = "collect"
    /\ futures[c][i].state = "finished"
    /\ i \notin Range(order[c])
    /\ order' = [order EXCEPT ![c] = Append(@, i)]
    /\ heap' = IF futures[c][i].exception
               THEN heap
               ELSE [heap EXCEPT ![all_properties] = extend(@, futures[c][i].result)]
    /\ UNCHANGED <<all_properties, callers, fpc, ptypes, params, futures, returned,
                   cacheVars, keyVars, threadVars, finVars, listVars>>

\* the loop and the with block end
JoinDone(c) ==
    /\ fpc[c] = "collect"
    /\ as_completed_done(futures[c], Range(order[c]))
    /\ shutdown_wait(futures[c])
    /\ fpc' = [fpc EXCEPT ![c] = "filter"]
    /\ UNCHANGED <<heap, all_properties, callers, ptypes, params, futures, order, returned,
                   cacheVars, keyVars, threadVars, finVars, listVars>>

\* lines 83-88: if property_types: self.all_properties = [...]
Filter(c) ==
    /\ fpc[c] = "filter"
    /\ IF truth(ptypes[c])
       THEN /\ heap' = Append(heap, type_filter(heap[all_properties], ptypes[c]))
            /\ all_properties' = Len(heap) + 1
       ELSE UNCHANGED <<heap, all_properties>>
    /\ fpc' = [fpc EXCEPT ![c] = "return"]
    /\ UNCHANGED <<callers, ptypes, params, futures, order, returned, cacheVars, keyVars,
                   threadVars, finVars, listVars>>

\* line 91: return self.all_properties
Return(c) ==
    /\ fpc[c] = "return"
    /\ returned' = [returned EXCEPT ![c] = all_properties]
    /\ fpc' = [fpc EXCEPT ![c] = "returned"]
    /\ UNCHANGED <<heap, all_properties, callers, ptypes, params, futures, order,
                   cacheVars, keyVars, threadVars, finVars, listVars>>

NextFetch ==
    \/ \E c \in callers, property_types \in PropertyTypeArgs, search \in SearchParams :
          FetchStart(c, property_types, search)
    \/ \E c \in callers : Submit(c)
    \/ \E c \in callers, i \in SourceNames : TaskStart(c, i)
    \/ \E c \in callers, i \in SourceNames, kind \in SearchKinds :
          \E records \in Lists(i) : TaskFinish(c, i, kind, records)
    \/ \E c \in callers, i \in SourceNames : Collect(c, i)
    \/ \E c \in callers : JoinDone(c)
    \/ \E c \in callers : Filter(c)
    \/ \E c \in callers : Return(c)

SpecFetch == InitFetch /\ [][NextFetch]_vars

(***************************************************************************)
(* Properties of fetch_properties under SpecFetch.                         *)
(***************************************************************************)
\* the records the search of source i of call c returned to the aggregator:
\* none unless it succeeded
Found(c, i) ==
    IF futures[c][i].search.kind = "ok" THEN futures[c][i].search.records ELSE <<>>

\* the records found by the sources of seq, one list after the other
RECURSIVE ConcatFound(_, _)
ConcatFound(c, seq) ==
    IF seq = <<>> THEN <<>> ELSE Found(c, Head(seq)) \o ConcatFound(c, Tail(seq))

\* how often record r occurs in list
Count(list, r) == Cardinality({k \in 1..Len(list) : list[k] = r})

Joined(c) == fpc[c] \in {"filter", "return", "returned"}

\* C1: fetch_properties tolerates partial failure.  Whatever sources fail,
\* the list merged before the property_types filter is the concatenation, in
\* the order of completion, of the lists of the sources that succeeded, every
\* record as often as it was returned; a failed source adds nothing and takes
\* nothing away; and the call returns a list.
C1_PartialFailure ==
    \A c \in callers :
        /\ fpc[c] = "filter"
            => /\ Range(order[c]) = SourceNames
               /\ heap[all_properties] = ConcatFound(c, order[c])
        /\ fpc[c] = "returned"
            => /\ returned[c] \in DOMAIN heap
               /\ ~truth(ptypes[c]) => heap[returned[c]] = ConcatFound(c, order[c])

\* C1's case: one source failed, the other returned the same record twice,
\* and the merged list holds it twice
C1_Witness ==
    \E c \in callers, i \in SourceNames, j \in SourceNames, r \in Pool("LoopNet") :
        /\ fpc[c] = "filter"
        /\ futures[c][i].search.kind = "raised"
        /\ futures[c][j].search.kind = "ok"
        /\ order[c] = <<j, i>>
        /\ Count(futures[c][j].search.records, r) = 2
        /\ Count(heap[all_properties], r) = 2

\* C10: fetch_properties joins all tasks.  Once the call is past the with
\* block, every task it dispatched has finished, and the records of every
\* source that succeeded are in the merged list, whether or not another
\* source failed and whichever finished first.
C10_JoinsAllTasks ==
    \A c \in callers :
        /\ Joined(c) => \A i \in SourceNames : futures[c][i].state = "finished"
        /\ fpc[c] = "filter"
            => \A i \in SourceNames : \A r \in Pool(i) :
                   Count(heap[all_properties], r) >= Count(Found(c, i), r)

\* C10's case: the call returned after a source failed first and its
\* sibling then finished with records, which are in the returned list
C10_Witness ==
    \E c \in callers, r \in Pool("Zillow") :
        /\ fpc[c] = "returned"
        /\ order[c] = <<"LoopNet", "Zillow">>
        /\ futures[c]["LoopNet"].search.kind = "failed"
        /\ futures[c]["Zillow"].search.kind = "ok"
        /\ Count(Found(c, "Zillow"), r) > 0
        /\ Count(heap[returned[c]], r) = Count(Found(c, "Zillow"), r)

\* the call has dispatched its tasks
Dispatched(c) == fpc[c] \notin {"idle", "submit"}

\* C11: one attempt per adapter per call.  Once a call has dispatched its
\* tasks, exactly one task has been submitted for each source, every task
\* carries the search parameters of the call, and the search of a source is
\* called at most once, exactly once when its task has finished, whether it
\* succeeded or failed.
C11_OneAttemptPerAdapter ==
    \A c \in callers : \A i \in SourceNames :
        /\ futures[c][i].submits <= 1
        /\ Dispatched(c) => futures[c][i].submits = 1
        /\ futures[c][i].submits = 1
            => /\ futures[c][i].args.location = params[c].location
               /\ futures[c][i].args.min_price = params[c].min_price
               /\ futures[c][i].args.max_price = params[c].max_price
               /\ futures[c][i].args.max_results = params[c].max_results
        /\ futures[c][i].attempts <= 1
        /\ futures[c][i].state = "finished" <=> futures[c][i].attempts = 1

\* C11's case: the call returned, one search had failed and the other had
\* raised, and each was called once
C11_Witness ==
    \E c \in callers :
        /\ fpc[c] = "returned"
        /\ params[c].location = "c2"
        /\ futures[c]["Zillow"].search.kind = "failed"
        /\ futures[c]["LoopNet"].search.kind = "raised"
        /\ \A i \in SourceNames :
               futures[c][i].attempts = 1 /\ futures[c][i].args = params[c]

\* two characters that are the same letter, whatever their case
SameLetter(a, b) == a = b \/ {a, b} = {"A", "a"} \/ {a, b} = {"B", "b"}

\* sub occurs in s_ as a substring, case apart
ContainsIgnoringCase(sub, s_) ==
    \E i \in 0..(Len(s_) - Len(sub)) :
        \A k \in 1..Len(sub) : SameLetter(sub[k], s_[i + k])

\* record p_ is of one of the requested types
OfRequestedType(p_, property_types) ==
    /\ p_.property_type.type = "str"
    /\ p_.property_type.s # <<>>
    /\ \E j \in 1..Len(property_types.items) :
           ContainsIgnoringCase(property_types.items[j], p_.property_type.s)

\* the list the call is about to return, or has returned
Result(c) == IF fpc[c] = "returned" THEN heap[returned[c]] ELSE heap[all_properties]

\* C12: the property_types filter of fetch_properties.  Given a non-empty
\* property_types list, the result is the merged records whose
\* property_type contains a requested type as a substring, case apart, in
\* their order (a record with an empty or missing property_type is dropped);
\* given None or an empty list, the result is the merged records.
C12_TypeFilter ==
    \A c \in callers :
        fpc[c] \in {"return", "returned"}
            => LET merged == ConcatFound(c, order[c])
                   requested(p_) == OfRequestedType(p_, ptypes[c])
               IN  IF ptypes[c].type = "list" /\ ptypes[c].items # <<>>
                   THEN Result(c) = SelectSeq(merged, requested)
                   ELSE Result(c) = merged

\* C12's case: ["B"] was requested, the merged list held a record of type
\* "b" and one without a type, and the call returned the first only
C12_Witness ==
    \E c \in callers :
        /\ fpc[c] = "returned"
        /\ ptypes[c] = [type |-> "list", items |-> <<<<"B">>>>]
        /\ Found(c, "Zillow") = <<Prop("Zillow", 2, PyNone)>>
        /\ Found(c, "LoopNet") = <<Prop("LoopNet", 1, PyStr(<<"b">>))>>
        /\ heap[returned[c]] = <<Prop("LoopNet", 1, PyStr(<<"b">>))>>

(***************************************************************************)
(* SpecShared: two calls of fetch_properties on one DataAggregator, each   *)
(* in a thread of its own, so that the statements of the two calls         *)
(* interleave; a call that starts after the other has returned is the      *)
(* later call of a sequence.  Both calls work on self.all_properties.  The *)
(* search of source i of call c finds the record of the source with id c,  *)
(* or fails.                                                               *)
(***************************************************************************)
SharedCallers == {1, 2}

\* the list the search of a source finds for call c
FoundFor(c, source) ==
    <<CHOOSE p_ \in Pool(source) : p_.id = c>>

InitShared ==
    /\ IdleKey
    /\ IdleThreads
    /\ IdleFin
    /\ IdleList
    /\ now = 0 /\ use_disk = TRUE /\ _cache = EmptyMap /\ files = EmptyMap
    /\ last = NoCall
    /\ heap = <<>>
    /\ all_properties = 0
    /\ callers = SharedCallers
    /\ fpc = [c \in callers |-> "idle"]
    /\ ptypes = [c \in callers |-> PyNone]
    /\ params = [c \in callers |-> NoSearch]
    /\ futures = [c \in callers |-> [i \in SourceNames |-> NoFuture]]
    /\ order = [c \in callers |-> <<>>]
    /\ returned = [c \in callers |-> 0]

NextShared ==
    \/ \E c \in callers, property_types \in {PyNone, [type |-> "list", items |-> <<<<"b">>>>]} :
          \E search \in {s_ \in SearchParams : s_.location = "c1"} :
              FetchStart(c, property_types, search)
    \/ \E c \in callers : Submit(c)
    \/ \E c \in callers, i \in SourceNames : TaskStart(c, i)
    \/ \E c \in callers, i \in SourceNames, kind \in {"ok", "failed"} :
          TaskFinish(c, i, kind, IF kind = "ok" THEN FoundFor(c, i) ELSE <<>>)
    \/ \E c \in callers, i \in SourceNames : Collect(c, i)
    \/ \E c \in callers : JoinDone(c)
    \/ \E c \in callers : Filter(c)
    \/ \E c \in callers : Return(c)

SpecShared == InitShared /\ [][NextShared]_vars

\* what call c has to return: the records its own searches found, in the
\* order of completion, those of the requested types if types were given
OwnRecords(c) ==
    IF truth(ptypes[c])
    THEN type_filter(ConcatFound(c, order[c]), ptypes[c])
    ELSE ConcatFound(c, order[c])

\* C29: two calls of fetch_properties on one DataAggregator do not
\* interfere.  The list a call has returned holds exactly the records of
\* its own successful searches, none of the other call and none of its own
\* missing, and holds them still whatever the other call does afterwards.
C29_CallsDoNotInterfere ==
    \A c \in callers :
        fpc[c] = "returned" => heap[returned[c]] = OwnRecords(c)

(***************************************************************************)
(* The cache tiers under concurrent threads.  MemoryCache has no lock and  *)
(* DiskCache writes its file in place, so the methods are taken apart into *)
(* the steps between which another thread can run: the statements of       *)
(* MemoryCache, the system calls of DiskCache.  All threads use one key.   *)
(***************************************************************************)
Threads == {"t1", "t2"}
SharedKey == KeyOf(1)

\* a thread: the method it is in (op) and the step it is at (pc), the
\* locals value and expiry, for DiskCache.set whether the file it opened is
\* still the one at cache_path (linked), and for a finished call what it
\* returned, the exception that left it, and what a get found (saw)
IdleThread ==
    [pc |-> "idle", op |-> "none", value |-> None, expiry |-> 0,
     linked |-> FALSE, ret |-> None, raised |-> "", saw |-> ""]

AtRest(t) == threads[t].pc \in {"idle", "done"}

\* the call of thread t starts: its record is that of a new call of op
Begin(op) == [IdleThread EXCEPT !.op = op]

\* the call returns ret (having found saw), or exception raised leaves it
Done(th, ret, raised, saw) ==
    [IdleThread EXCEPT !.pc = "done", !.op = th.op, !.ret = ret,
                       !.raised = raised, !.saw = saw]

InitThreads ==
    /\ IdleKey
    /\ IdleFetch
    /\ IdleFin
    /\ IdleList
    /\ now = 0
    /\ _cache = EmptyMap
    /\ files = EmptyMap
    /\ last = NoCall
    /\ threads = [t \in Threads |-> IdleThread]

notThreads == <<keyVars, fetchVars, finVars, listVars>>

(***************************************************************************)
(* SpecMem: MemoryCache.get, set and clear, statement by statement.        *)
(***************************************************************************)
\* line 26: if key in cls._cache
MemGetTest(t) ==
    /\ AtRest(t)
    /\ threads' = [threads EXCEPT ![t] =
           IF SharedKey \in DOMAIN _cache
           THEN [Begin("get") EXCEPT !.pc = "read"]
           ELSE Done(Begin("get"), None, "", "absent")]
    /\ UNCHANGED <<cacheVars, notThreads>>

\* line 27: value, expiry = cls._cache[key]
MemGetRead(t) ==
    /\ threads[t].pc = "read"
    /\ threads' = [threads EXCEPT ![t] =
           IF SharedKey \in DOMAIN _cache
           THEN [@ EXCEPT !.pc = "time", !.value = _cache[SharedKey].value,
                          !.expiry = _cache[SharedKey].expiry]
           ELSE Done(@, None, "KeyError", "absent")]
    /\ UNCHANGED <<cacheVars, notThreads>>

\* lines 28-33: if expiry > time.time(): return value
MemGetTime(t) ==
    /\ threads[t].pc = "time"
    /\ threads' = [threads EXCEPT ![t] =
           IF @.expiry > now
           THEN Done(@, @.value, "", "unexpired")
           ELSE [@ EXCEPT !.pc = "del"]]
    /\ UNCHANGED <<cacheVars, notThreads>>

\* lines 34-35: del cls._cache[key]; return None
MemGetDel(t) ==
    /\ threads[t].pc = "del"
    /\ IF SharedKey \in DOMAIN _cache
       THEN /\ _cache' = Remove(_cache, SharedKey)
            /\ threads' = [threads EXCEPT ![t] = Done(@, None, "", "expired")]
       ELSE /\ _cache' = _cache
            /\ threads' = [threads EXCEPT ![t] = Done(@, None, "KeyError", "expired")]
    /\ UNCHANGED <<now, use_disk, files, last, notThreads>>

\* line 40: expiry = time.time() + ttl
MemSetTime(t, value, ttl_) ==
    /\ AtRest(t)
    /\ threads' = [threads EXCEPT ![t] =
           [Begin("set") EXCEPT !.pc = "store", !.value = value,
                                !.expiry = now + ttl_]]
    /\ UNCHANGED <<cacheVars, notThreads>>

\* lines 41-42: cls._cache[key] = (value, expiry)
MemSetStore(t) ==
    /\ threads[t].pc = "store"
    /\ _cache' = Put(_cache, SharedKey, MemEntry(threads[t].value, threads[t].expiry))
    /\ threads' = [threads EXCEPT ![t] = Done(@, None, "", "")]
    /\ UNCHANGED <<now, use_disk, files, last, notThreads>>

\* lines 47-48: cls._cache.clear()
MemClear(t) ==
    /\ AtRest(t)
    /\ _cache' = MemoryCache_clear(_cache).store
    /\ threads' = [threads EXCEPT ![t] = Done(Begin("clear"), None, "", "")]
    /\ UNCHANGED <<now, use_disk, files, last, notThreads>>

\* time passes
ThreadTick ==
    /\ now < MaxTime
    /\ now' = now + 1
    /\ UNCHANGED <<use_disk, _cache, files, last, threads, notThreads>>

InitMem == InitThreads /\ use_disk = FALSE

NextMem ==
    \/ \E t \in Threads : MemGetTest(t)
    \/ \E t \in Threads : MemGetRead(t)
    \/ \E t \in Threads : MemGetTime(t)
    \/ \E t \in Threads : MemGetDel(t)
    \/ \E t \in Threads, value \in Values, ttl_ \in TTLs : MemSetTime(t, value, ttl_)
    \/ \E t \in Threads : MemSetStore(t)
    \/ \E t \in Threads : MemClear(t)
    \/ ThreadTick

SpecMem == InitMem /\ [][NextMem]_vars

\* C7: the volatile tier is safe under concurrency.  Whatever the
\* interleaving of the get, set and clear calls of the threads on the key,
\* no call raises, and a get returns None or a value that a set stored.
C7_VolatileTierSafe ==
    \A t \in Threads :
        /\ threads[t].raised = ""
        /\ threads[t].pc = "done" /\ threads[t].op = "get"
            => threads[t].ret \in Values \cup {None}

(***************************************************************************)
(* SpecDisk: DiskCache.get and set, system call by system call.  set       *)
(* writes the file of the key in place: open(cache_path, 'wb') creates or  *)
(* truncates it, pickle.dump fills the buffer of the file object, and      *)
(* leaving the with block writes the buffer and closes the file.  A file   *)
(* removed while a set has it open stays removed: the set writes to an     *)
(* unlinked file.                                                          *)
(***************************************************************************)
SharedPath == get_cache_path(SharedKey)

\* lines 63-64: if os.path.exists(cache_path)
DiskGetExists(t) ==
    /\ AtRest(t)
    /\ threads' = [threads EXCEPT ![t] =
           IF SharedPath \in DOMAIN files
           THEN [Begin("get") EXCEPT !.pc = "load"]
           ELSE Done(Begin("get"), None, "", "absent")]
    /\ UNCHANGED <<cacheVars, notThreads>>

\* lines 66-67, 75-76: open(cache_path, 'rb') and pickle.load(f), taken as
\* one step; open raises FileNotFoundError, an IOError, when the file is gone
DiskGetLoad(t) ==
    /\ threads[t].pc = "load"
    /\ threads' = [threads EXCEPT ![t] =
           IF SharedPath \notin DOMAIN files
           THEN Done(@, None, "", "absent")
           ELSE LET content == files[SharedPath]
                    loaded == pickle_load(content)
                IN  IF loaded.ok
                    THEN [@ EXCEPT !.pc = "time", !.value = content.value,
                                   !.expiry = content.expiry, !.saw = content.kind]
                    ELSE IF loaded.exc \in Caught
                         THEN Done(@, None, "", content.kind)
                         ELSE Done(@, None, loaded.exc, content.kind)]
    /\ UNCHANGED <<cacheVars, notThreads>>

\* lines 68-70: if expiry > time.time(): return value
DiskGetTime(t) ==
    /\ threads[t].pc = "time"
    /\ threads' = [threads EXCEPT ![t] =
           IF @.expiry > now
           THEN Done(@, @.value, "", @.saw)
           ELSE [@ EXCEPT !.pc = "remove"]]
    /\ UNCHANGED <<cacheVars, notThreads>>

\* lines 71-77: os.remove(cache_path); FileNotFoundError is caught
DiskGetRemove(t) ==
    /\ threads[t].pc = "remove"
    /\ files' = Remove(files, SharedPath)
    /\ threads' = [u \in Threads |->
                      IF u = t THEN Done(threads[t], None, "", threads[t].saw)
                      ELSE [threads[u] EXCEPT !.linked = FALSE]]
    /\ UNCHANGED <<now, use_disk, _cache, last, notThreads>>

\* lines 82-83: expiry = time.time() + ttl
DiskSetTime(t, value, ttl_) ==
    /\ AtRest(t)
    /\ threads' = [threads EXCEPT ![t] =
           [Begin("set") EXCEPT !.pc = "open", !.value = value,
                                !.expiry = now + ttl_]]
    /\ UNCHANGED <<cacheVars, notThreads>>

\* line 85: open(cache_path, 'wb') creates the file or truncates it
DiskSetOpen(t) ==
    /\ threads[t].pc = "open"
    /\ files' = Put(files, SharedPath, RanOutOfInput)
    /\ threads' = [threads EXCEPT ![t] = [@ EXCEPT !.pc = "write", !.linked = TRUE]]
    /\ UNCHANGED <<now, use_disk, _cache, last, notThreads>>

\* lines 86-87: pickle.dump((value, expiry), f) and the end of the with
\* block: the pickle is written from the start of the file
DiskSetWrite(t) ==
    /\ threads[t].pc = "write"
    /\ files' = IF threads[t].linked
                THEN Put(files, SharedPath,
                         Pickle(threads[t].value, threads[t].expiry))
                ELSE files
    /\ threads' = [threads EXCEPT ![t] = Done(@, None, "", "")]
    /\ UNCHANGED <<now, use_disk, _cache, last, notThreads>>

InitDisk == InitThreads /\ use_disk = TRUE

NextDisk ==
    \/ \E t \in Threads : DiskGetExists(t)
    \/ \E t \in Threads : DiskGetLoad(t)
    \/ \E t \in Threads : DiskGetTime(t)
    \/ \E t \in Threads : DiskGetRemove(t)
    \/ \E t \in Threads, value \in Values, ttl_ \in TTLs : DiskSetTime(t, value, ttl_)
    \/ \E t \in Threads : DiskSetOpen(t)
    \/ \E t \in Threads : DiskSetWrite(t)
    \/ ThreadTick

SpecDisk == InitDisk /\ [][NextDisk]_vars

\* C6: persistent-tier writes are atomic per key.  Whatever the
\* interleaving of a set with gets and other sets of the key, a get finds
\* no entry or one complete (value, expiry) pair, never a partly written
\* file, and no get raises.
C6_AtomicWrites ==
    \A t \in Threads :
        threads[t].op = "get"
            => /\ threads[t].saw \in {"", "absent", "pickle"}
               /\ threads[t].raised = ""

\* C28: on both tiers a get never removes an unexpired entry.  When the
\* last step of a get (del cls._cache[key], os.remove(cache_path)) removes
\* what the tier holds for the key, that is a complete entry whose expiry
\* instant has passed: neither the entry a concurrent set has stored since
\* the get read the expired one, nor the file a concurrent set has open.
C28_GetKeepsFreshEntry ==
    [][\A t \in Threads :
          (/\ threads[t].pc \in {"del", "remove"}
           /\ threads'[t].pc = "done"
           /\ Lookup(_cache, files, use_disk, SharedKey) # Absent)
          => Expired(Lookup(_cache, files, use_disk, SharedKey), now)]_vars

(***************************************************************************)
(* FinancialAnalysis.  Numbers are integers: money in dollars, rates and   *)
(* percentages in basis points (1/10000, so 20% is 2000 and a cap rate of  *)
(* 4 is 400), plain ratios in hundredths; a quotient is rounded down.  A   *)
(* missing number is PyNone.  A call gives Returns(value) or, when an      *)
(* exception leaves it, Raises(exception).                                 *)
(***************************************************************************)
DEFAULT_PROPERTY_TAX_RATE == 110
DEFAULT_INSURANCE_RATE == 50
DEFAULT_VACANCY_RATE == 500
DEFAULT_MAINTENANCE_RATE == 500
DEFAULT_MANAGEMENT_FEE_RATE == 1000
DEFAULT_MORTGAGE_INTEREST_RATE == 550
DEFAULT_MORTGAGE_TERM_YEARS == 30
\* one, as a rate in basis points
BasisPoints == 10000
\* float('inf')
inf == 2147483647

Returns(value) == [exc |-> "", value |-> value]
Raises(exc) == [exc |-> exc, value |-> <<>>]

\* a and b or c of Python, for numbers and None
or_(a, b) == IF truth(a) THEN a ELSE b

\* Property.__post_init__ on the fields given to the constructor
Property_post_init(self) ==
    LET yield_(pr, ar) == PyInt((ar.n * BasisPoints) \div pr.n)
        ratio_(pr, ar) == PyInt((pr.n * 100) \div ar.n)
        price_ok == truth(self.price) /\ self.price.n > 0
        s1 == IF truth(self.annual_rent) /\ price_ok
              THEN [self EXCEPT !.rental_yield = yield_(self.price, self.annual_rent)]
              ELSE self
        s2 == IF truth(s1.annual_rent) /\ truth(s1.price) /\ s1.annual_rent.n > 0
              THEN [s1 EXCEPT !.price_to_rent_ratio = ratio_(s1.price, s1.annual_rent)]
              ELSE s1
        s3 == IF truth(s2.monthly_rent) /\ ~truth(s2.annual_rent)
              THEN LET ar == PyInt(s2.monthly_rent.n * 12)
                       s3a == [s2 EXCEPT !.annual_rent = ar]
                   IN  IF price_ok
                       THEN [s3a EXCEPT !.rental_yield = yield_(s2.price, ar),
                                        !.price_to_rent_ratio = ratio_(s2.price, ar)]
                       ELSE s3a
              ELSE s2
    IN  IF truth(s3.annual_rent) /\ ~truth(s3.monthly_rent)
        THEN [s3 EXCEPT !.monthly_rent = PyInt(s3.annual_rent.n \div 12)]
        ELSE s3

\* Property(price=..., monthly_rent=..., annual_rent=...)
Property(price, monthly_rent, annual_rent) ==
    Property_post_init([price |-> price, monthly_rent |-> monthly_rent,
                        annual_rent |-> annual_rent, rental_yield |-> PyNone,
                        price_to_rent_ratio |-> PyNone])

\* the monthly payment per 1000000 of loan, P = L[c(1+c)^n]/[(1+c)^n - 1]
\* with L = 1000000, for the rates and terms of the model
PaymentPerMillion(annual_interest_rate, loan_term_years) ==
    CASE annual_interest_rate = 550 /\ loan_term_years = 30 -> 5678
      [] annual_interest_rate = 750 /\ loan_term_years = 30 -> 6992

_calculate_mortgage_payment(loan_amount, annual_interest_rate, loan_term_years) ==
    LET num_payments == loan_term_years * 12 IN
    IF annual_interest_rate = 0
    THEN IF num_payments = 0
         THEN Raises("ZeroDivisionError")
         ELSE Returns(loan_amount \div num_payments)
    ELSE IF num_payments = 0
         THEN Raises("ZeroDivisionError")
         ELSE Returns((loan_amount
                        * PaymentPerMillion(annual_interest_rate, loan_term_years))
                     \div 1000000)

\* the keys of a full result that are 12 times a monthly one
Annual(m) == m * 12

\* the risk level with the bounds of Low and Moderate one too high
risk_level_of_shifted(risk_score) ==
    IF risk_score <= 2 THEN "Low"
    ELSE IF risk_score <= 5 THEN "Moderate" ELSE "High"

\* lines 155-160: the risk level of a score
risk_level_of(risk_score) ==
    IF risk_score <= 1 THEN "Low"
    ELSE IF risk_score <= 4 THEN "Moderate" ELSE "High"

\* the checks without the one of a coverage ratio below 1.0
risk_checks_no_negative_coverage(cap_rate, cash_on_cash_return, debt_service_coverage_ratio, one_percent_rule_passed) ==
    LET
        cap_check ==
            IF cap_rate < 400 THEN <<[factor |-> "Low cap rate", score |-> 2]>>
            ELSE IF cap_rate < 600
                 THEN <<[factor |-> "Moderate cap rate", score |-> 1]>>
                 ELSE <<>>
        coc_check ==
            IF cash_on_cash_return < 400
            THEN <<[factor |-> "Low cash on cash return", score |-> 2]>>
            ELSE IF cash_on_cash_return < 800
                 THEN <<[factor |-> "Moderate cash on cash return", score |-> 1]>>
                 ELSE <<>>
        dscr_check ==
            IF debt_service_coverage_ratio >= 100 /\ debt_service_coverage_ratio < 125
            THEN <<[factor |-> "Low DSCR (tight cash flow)", score |-> 2]>>
            ELSE IF debt_service_coverage_ratio >= 125 /\ debt_service_coverage_ratio < 150
                 THEN <<[factor |-> "Moderate DSCR", score |-> 1]>>
                 ELSE <<>>
        rule_check ==
            IF ~one_percent_rule_passed
            THEN <<[factor |-> "Does not meet 1% rule", score |-> 1]>>
            ELSE <<>>
    IN  cap_check \o coc_check \o dscr_check \o rule_check

\* lines 118-152: the checks that are triggered, in order, each with its
\* reason and its contribution to the score
risk_checks(cap_rate, cash_on_cash_return, debt_service_coverage_ratio, one_percent_rule_passed) ==
    LET
        cap_check ==
            IF cap_rate < 400 THEN <<[factor |-> "Low cap rate", score |-> 2]>>
            ELSE IF cap_rate < 600
                 THEN <<[factor |-> "Moderate cap rate", score |-> 1]>>
                 ELSE <<>>
        coc_check ==
            IF cash_on_cash_return < 400
            THEN <<[factor |-> "Low cash on cash return", score |-> 2]>>
            ELSE IF cash_on_cash_return < 800
                 THEN <<[factor |-> "Moderate cash on cash return", score |-> 1]>>
                 ELSE <<>>
        dscr_check ==
            IF debt_service_coverage_ratio < 100
            THEN <<[factor |-> "DSCR below 1.0 (negative cash flow)", score |-> 3]>>
            ELSE IF debt_service_coverage_ratio < 125
                 THEN <<[factor |-> "Low DSCR (tight cash flow)", score |-> 2]>>
                 ELSE IF debt_service_coverage_ratio < 150
                      THEN <<[factor |-> "Moderate DSCR", score |-> 1]>>
                      ELSE <<>>
        rule_check ==
            IF ~one_percent_rule_passed
            THEN <<[factor |-> "Does not meet 1% rule", score |-> 1]>>
            ELSE <<>>
    IN  cap_check \o coc_check \o dscr_check \o rule_check

\* calculate_metrics that works out the payment before it tests the price
calculate_metrics_payment_first(property_data_, down_payment_percentage, interest_rate_, loan_term_years) ==
    IF loan_term_years = 0
    THEN Raises("ZeroDivisionError")
    ELSE Returns([error |->
             "Property price is required and must be greater than zero"])

calculate_metrics(property_data_, down_payment_percentage, interest_rate_, loan_term_years) ==
    LET interest_rate ==
            IF interest_rate_ = PyNone
            THEN DEFAULT_MORTGAGE_INTEREST_RATE ELSE interest_rate_.n
        price == property_data_.price
        monthly_rent_ == property_data_.monthly_rent
        annual_rent_ ==
            or_(property_data_.annual_rent,
                IF truth(monthly_rent_) THEN PyInt(monthly_rent_.n * 12) ELSE PyNone)
        \* price * down_payment_percentage, for a price in whole hundreds
        down_payment == ((price.n \div 100) * down_payment_percentage) \div 100
        loan_amount == price.n - down_payment
        payment ==
            _calculate_mortgage_payment(loan_amount, interest_rate, loan_term_years)
        full ==
            LET annual_rent == annual_rent_.n
                monthly_rent ==
                    IF truth(monthly_rent_) THEN monthly_rent_.n ELSE annual_rent \div 12
                monthly_mortgage_payment == payment.value
                property_tax == (price.n * DEFAULT_PROPERTY_TAX_RATE) \div (12 * BasisPoints)
                insurance == (price.n * DEFAULT_INSURANCE_RATE) \div (12 * BasisPoints)
                vacancy_cost == (monthly_rent * DEFAULT_VACANCY_RATE) \div BasisPoints
                maintenance == (monthly_rent * DEFAULT_MAINTENANCE_RATE) \div BasisPoints
                property_management ==
                    (monthly_rent * DEFAULT_MANAGEMENT_FEE_RATE) \div BasisPoints
                total_monthly_expenses ==
                    property_tax + insurance + vacancy_cost + maintenance
                    + property_management
                monthly_cash_flow ==
                    monthly_rent - monthly_mortgage_payment - total_monthly_expenses
                annual_cash_flow == monthly_cash_flow * 12
                monthly_noi == monthly_rent - total_monthly_expenses
                annual_noi == monthly_noi * 12
                cap_rate == (annual_noi * BasisPoints) \div price.n
                rental_yield == (annual_rent * BasisPoints) \div price.n
                cash_on_cash_return == (annual_cash_flow * BasisPoints) \div down_payment
                gross_rent_multiplier == (price.n * 100) \div annual_rent
                annual_debt_service == monthly_mortgage_payment * 12
                debt_service_coverage_ratio ==
                    IF annual_debt_service > 0
                    THEN (annual_noi * 100) \div annual_debt_service ELSE inf
                break_even_ratio ==
                    IF monthly_rent > 0
                    THEN ((total_monthly_expenses + monthly_mortgage_payment) * 100)
                         \div monthly_rent
                    ELSE inf
                operating_expense_ratio ==
                    IF monthly_rent > 0
                    THEN (total_monthly_expenses * 100) \div monthly_rent ELSE inf
                one_percent_rule_value ==
                    IF price.n > 0 THEN (monthly_rent * BasisPoints) \div price.n ELSE 0
                one_percent_rule_passed == one_percent_rule_value >= 100
                checks == risk_checks(cap_rate, cash_on_cash_return, debt_service_coverage_ratio, one_percent_rule_passed)
                risk_factors == [i \in 1..Len(checks) |-> checks[i].factor]
                score[i \in 0..Len(checks)] ==
                    IF i = 0 THEN 0 ELSE score[i - 1] + checks[i].score
                risk_score == score[Len(checks)]
                risk_level == risk_level_of(risk_score)
            IN  IF down_payment = 0
                THEN Raises("ZeroDivisionError")
                ELSE Returns(
                  [property_price |-> price.n,
                   monthly_rent |-> monthly_rent,
                   annual_rent |-> annual_rent,
                   down_payment |-> down_payment,
                   down_payment_percentage |-> down_payment_percentage,
                   loan_amount |-> loan_amount,
                   interest_rate |-> interest_rate,
                   loan_term_years |-> loan_term_years,
                   monthly_mortgage_payment |-> monthly_mortgage_payment,
                   annual_mortgage_payment |-> Annual(monthly_mortgage_payment),
                   monthly_property_tax |-> property_tax,
                   annual_property_tax |-> Annual(property_tax),
                   monthly_insurance |-> insurance,
                   annual_insurance |-> Annual(insurance),
                   monthly_vacancy_cost |-> vacancy_cost,
                   annual_vacancy_cost |-> Annual(vacancy_cost),
                   monthly_maintenance |-> maintenance,
                   annual_maintenance |-> Annual(maintenance),
                   monthly_property_management |-> property_management,
                   annual_property_management |-> Annual(property_management),
                   total_monthly_expenses |-> total_monthly_expenses,
                   total_annual_expenses |-> Annual(total_monthly_expenses),
                   monthly_noi |-> monthly_noi,
                   annual_noi |-> annual_noi,
                   monthly_cash_flow |-> monthly_cash_flow,
                   annual_cash_flow |-> annual_cash_flow,
                   cap_rate |-> cap_rate,
                   rental_yield |-> rental_yield,
                   cash_on_cash_return |-> cash_on_cash_return,
                   gross_rent_multiplier |-> gross_rent_multiplier,
                   debt_service_coverage_ratio |-> debt_service_coverage_ratio,
                   price_to_rent_ratio |-> gross_rent_multiplier,
                   break_even_ratio |-> break_even_ratio,
                   operating_expense_ratio |-> operating_expense_ratio,
                   one_percent_rule_value |-> one_percent_rule_value,
                   one_percent_rule_passed |-> one_percent_rule_passed,
                   risk_score |-> risk_score,
                   risk_level |-> risk_level,
                   risk_factors |-> risk_factors])
    IN  IF ~truth(price) \/ price.n <= 0
        THEN Returns([error |->
                 "Property price is required and must be greater than zero"])
        ELSE IF payment.exc # ""
             THEN payment
             ELSE IF ~truth(annual_rent_)
                  THEN Returns(
                    [error |->
                         "Rental information is missing, limited metrics available",
                     down_payment |-> down_payment,
                     loan_amount |-> loan_amount,
                     monthly_mortgage_payment |-> payment.value])
                  ELSE full

\* the three down payment scenarios and their names
down_payment_scenarios == <<2000, 2500, 3000>>
scenario_name(dp_percentage) ==
    CASE dp_percentage = 2000 -> "20%_down_payment"
      [] dp_percentage = 2500 -> "25%_down_payment"
      [] dp_percentage = 3000 -> "30%_down_payment"

\* the one element of a set of one element: in TheOne({F(x) : x \in {e}})
\* the value of e is computed once, however often F uses it
TheOne(S) == CHOOSE x \in S : TRUE

\* the scenarios dictionary, metrics[i] being what calculate_metrics gave
\* for the i-th scenario
scenarios(metrics) ==
    LET n == Len(down_payment_scenarios) IN
    IF \E i \in 1..n : metrics[i].exc # ""
    THEN metrics[CHOOSE i \in 1..n :
                    /\ metrics[i].exc # ""
                    /\ \A j \in 1..(i - 1) : metrics[j].exc = ""]
    ELSE Returns([name \in {scenario_name(down_payment_scenarios[i]) : i \in 1..n}
                    |-> LET i == CHOOSE i \in 1..n :
                                    scenario_name(down_payment_scenarios[i]) = name
                        IN  metrics[i].value])

calculate_multiple_scenarios(property_data_) ==
    TheOne({scenarios(metrics) :
               metrics \in {[i \in 1..Len(down_payment_scenarios) |->
                               calculate_metrics(property_data_,
                                                 down_payment_scenarios[i], PyNone,
                                                 DEFAULT_MORTGAGE_TERM_YEARS)]}})

\* a scenario flagged by the truth value of its cash flow
scenario_truthy(text, monthly_cash_flow) ==
    [scenario |-> text, monthly_cash_flow |-> monthly_cash_flow,
     annual_cash_flow |-> monthly_cash_flow * 12,
     still_profitable |-> monthly_cash_flow # 0]

\* a scenario of the stress test whose cash flow is monthly_cash_flow
scenario(text, monthly_cash_flow) ==
    [scenario |-> text, monthly_cash_flow |-> monthly_cash_flow,
     annual_cash_flow |-> monthly_cash_flow * 12,
     still_profitable |-> monthly_cash_flow > 0]

\* the share of the rent with its sign turned
impact_negated(monthly_rent, rate) == -((monthly_rent * rate) \div BasisPoints)

\* monthly_rent * rate of lines 271, 304 and 305
impact(monthly_rent, rate) == (monthly_rent * rate) \div BasisPoints

\* lines 254-330 of perform_stress_test, given what the four calls of
\* calculate_metrics gave
stress_tests(property_data_, base_metrics, vacancy_test_metrics, higher_interest_metrics, combined_metrics) ==
    LET monthly_rent == property_data_.monthly_rent
        vacancy_adjusted_cash_flow ==
            vacancy_test_metrics.value.monthly_cash_flow
            - impact(monthly_rent.n, DEFAULT_VACANCY_RATE)
        vacancy_impact == impact(monthly_rent.n, DEFAULT_VACANCY_RATE)
        maintenance_impact == impact(monthly_rent.n, DEFAULT_MAINTENANCE_RATE \div 2)
        combined_adjusted_cash_flow ==
            combined_metrics.value.monthly_cash_flow - vacancy_impact
            - maintenance_impact
        increased_vacancy ==
            scenario("Vacancy rate increased to 10.0%", vacancy_adjusted_cash_flow)
        interest_rate_increase ==
            [scenario |-> "Interest rate increased to 7.5%",
             monthly_mortgage_payment |->
                 higher_interest_metrics.value.monthly_mortgage_payment,
             monthly_cash_flow |-> higher_interest_metrics.value.monthly_cash_flow,
             annual_cash_flow |-> higher_interest_metrics.value.annual_cash_flow,
             still_profitable |->
                 higher_interest_metrics.value.monthly_cash_flow > 0]
        combined_stress ==
            scenario("Combined stress: Higher vacancy, interest rate, and maintenance",
                     combined_adjusted_cash_flow)
    IN  IF base_metrics.exc # ""
        THEN base_metrics
        ELSE IF "error" \in DOMAIN base_metrics.value
        THEN Returns([error |-> base_metrics.value.error])
        ELSE IF vacancy_test_metrics.exc # ""
        THEN vacancy_test_metrics
        ELSE IF "error" \in DOMAIN vacancy_test_metrics.value
        THEN Raises("KeyError")
        ELSE IF monthly_rent = PyNone
        THEN Raises("TypeError")
        ELSE IF higher_interest_metrics.exc # ""
        THEN higher_interest_metrics
        ELSE IF "error" \in DOMAIN higher_interest_metrics.value
        THEN Raises("KeyError")
        ELSE IF combined_metrics.exc # ""
        THEN combined_metrics
        ELSE IF "error" \in DOMAIN combined_metrics.value
        THEN Raises("KeyError")
        ELSE Returns(
               [increased_vacancy |-> increased_vacancy,
                interest_rate_increase |-> interest_rate_increase,
                combined_stress |-> combined_stress,
                summary |->
                    [passed_all_tests |->
                         /\ increased_vacancy.still_profitable
                         /\ interest_rate_increase.still_profitable
                         /\ combined_stress.still_profitable,
                     worst_case_monthly_cash_flow |->
                         combined_stress.monthly_cash_flow]])

\* Property(**vars(property_data)) of lines 262 and 291 is
\* Property_post_init(property_data_); the interest rate of lines 286 and
\* 294 is DEFAULT_MORTGAGE_INTEREST_RATE + 0.02
perform_stress_test(property_data_) ==
    TheOne({stress_tests(property_data_, base_metrics, vacancy_test_metrics,
                         higher_interest_metrics, combined_metrics) :
               base_metrics \in
                   {calculate_metrics(property_data_, 2000, PyNone,
                                      DEFAULT_MORTGAGE_TERM_YEARS)},
               vacancy_test_metrics \in
                   {calculate_metrics(Property_post_init(property_data_), 2000,
                                      PyNone, DEFAULT_MORTGAGE_TERM_YEARS)},
               higher_interest_metrics \in
                   {calculate_metrics(property_data_, 2000,
                                      PyInt(DEFAULT_MORTGAGE_INTEREST_RATE + 200),
                                      DEFAULT_MORTGAGE_TERM_YEARS)},
               combined_metrics \in
                   {calculate_metrics(Property_post_init(property_data_), 2000,
                                      PyInt(DEFAULT_MORTGAGE_INTEREST_RATE + 200),
                                      DEFAULT_MORTGAGE_TERM_YEARS)}})

(***************************************************************************)
(* SpecFin: a Property is constructed and the entry points of the engine   *)
(* are called on it.                                                       *)
(***************************************************************************)
Prices == {PyNone, PyInt(0), PyInt(-120000), PyInt(120000), PyInt(300000)}
MonthlyRents == {PyNone, PyInt(0), PyInt(1000), PyInt(2000)}
AnnualRents == {PyNone, PyInt(36000)}
DownPaymentPercentages == {0, 2000, 2500, 10000}
InterestRates == {PyNone, PyInt(0), PyInt(550), PyInt(750)}
LoanTermYears == {0, 30}

\* the fields a constructor call hands to __post_init__
Constructed(price, monthly_rent, annual_rent) ==
    [op |-> "Property", of |-> "",
     fields |-> [price |-> price, monthly_rent |-> monthly_rent,
                 annual_rent |-> annual_rent, rental_yield |-> PyNone,
                 price_to_rent_ratio |-> PyNone]]

\* what a property page may give as rent and as NOI, the square_feet of a
\* record, and the cap rates _estimate_commercial_rental_value assumes
PageRents == {PyNone, PyInt(0), PyInt(1500)}
PageNOIs == {PyNone, PyInt(24000)}
SquareFeet == {PyNone, PyInt(1500)}
TypicalCapRates == {700, 600}

\* ZillowScraper._estimate_rental_value: 0.8% of the price (0.7% above
\* 500000) rounded to the nearest 50, None without a price
_estimate_rental_value(property_data_) ==
    IF truth(property_data_.price)
    THEN LET per_mille == IF property_data_.price.n > 500000 THEN 7 ELSE 8
             monthly_rent == (property_data_.price.n * per_mille) \div 1000
         IN  PyInt(((monthly_rent + 25) \div 50) * 50)
    ELSE PyNone

\* zillow_scraper.py lines 376-386 and 326-330: the rent of the page, then
\* the estimate when the record has no monthly rent.  rent_text is None
\* when the page names no rent or names one without a number; the record
\* comes from a card and has no rent of its own
zillow_get_property_details(property_data_, rent_text) ==
    LET with_annual(r) ==
            IF truth(r.monthly_rent)
            THEN [r EXCEPT !.annual_rent = PyInt(r.monthly_rent.n * 12)]
            ELSE r
        extracted == with_annual([property_data_ EXCEPT !.monthly_rent = rent_text])
    IN  IF ~truth(extracted.monthly_rent)
        THEN with_annual([extracted EXCEPT !.monthly_rent = _estimate_rental_value(extracted)])
        ELSE extracted

\* LoopNetScraper._estimate_commercial_rental_value: price * cap_rate, for
\* a record with a price and square_feet
_estimate_commercial_rental_value(property_data_, square_feet, cap_rate) ==
    IF truth(property_data_.price) /\ truth(square_feet)
    THEN PyInt(((property_data_.price.n \div 100) * cap_rate) \div 100)
    ELSE PyNone

\* loopnet_scraper.py lines 319-332 and 251-256: the NOI of the page as
\* annual rent, then the estimate when the record has no rent
loopnet_get_property_details(property_data_, noi, square_feet, cap_rate) ==
    LET with_rent(r, annual_rent) ==
            IF truth(annual_rent)
            THEN [r EXCEPT !.annual_rent = annual_rent,
                           !.monthly_rent = PyInt(annual_rent.n \div 12)]
            ELSE r
        extracted == with_rent(property_data_, noi)
    IN  IF ~truth(extracted.annual_rent) /\ ~truth(extracted.monthly_rent)
        THEN with_rent(extracted, _estimate_commercial_rental_value(extracted, square_feet, cap_rate))
        ELSE extracted

NoAnalysis == [op |-> "none", args |-> <<>>, exc |-> "", value |-> <<>>]

InitFin ==
    /\ IdleKey
    /\ IdleFetch
    /\ IdleThreads
    /\ IdleList
    /\ now = 0 /\ use_disk = TRUE /\ _cache = EmptyMap /\ files = EmptyMap
    /\ last = NoCall
    /\ property_data = Property(PyNone, PyNone, PyNone)
    /\ analysis = NoAnalysis
    /\ given = Constructed(PyNone, PyNone, PyNone)

notFin == <<cacheVars, keyVars, fetchVars, threadVars, listVars>>

\* a record is constructed; the result of the last call is dropped
NewProperty(price, monthly_rent, annual_rent) ==
    /\ property_data' = Property(price, monthly_rent, annual_rent)
    /\ given' = Constructed(price, monthly_rent, annual_rent)
    /\ analysis' = NoAnalysis
    /\ UNCHANGED notFin

\* Property(**vars(property_data)), financial_analysis.py lines 262 and 291:
\* a new record is constructed from the fields of the record
Normalize ==
    /\ analysis = NoAnalysis
    /\ given.op # "vars"
    /\ property_data' = Property_post_init(property_data)
    /\ given' = [op |-> "vars", of |-> given.op, fields |-> property_data]
    /\ UNCHANGED <<analysis, notFin>>

\* a record as _extract_property_from_card constructs it: with a price and
\* no rent (zillow_scraper.py lines 205-218, loopnet_scraper.py lines 210-222)
FromCard ==
    /\ given.op = "Property"
    /\ given.fields.monthly_rent = PyNone
    /\ given.fields.annual_rent = PyNone

\* ZillowScraper._get_property_details on a record just constructed: the
\* request fails and the record is returned as it is, or the page is read
\* (rent_text: what the page gives as rent, None when it gives none) and
\* the rent is estimated when there is none
ZillowDetails(kind, rent_text) ==
    /\ analysis = NoAnalysis
    /\ FromCard
    /\ property_data' = IF kind = "ok"
                        THEN zillow_get_property_details(property_data, rent_text)
                        ELSE property_data
    /\ given' = [op |-> "_get_property_details", of |-> given.op, fields |-> property_data]
    /\ UNCHANGED <<analysis, notFin>>

\* LoopNetScraper._get_property_details on a record just constructed (noi:
\* the NOI of a page that also gives a cap rate, None otherwise;
\* square_feet and cap_rate: what the estimate reads of the record)
LoopNetDetails(kind, noi, square_feet, cap_rate) ==
    /\ analysis = NoAnalysis
    /\ FromCard
    /\ property_data' = IF kind = "ok"
                        THEN loopnet_get_property_details(property_data, noi, square_feet, cap_rate)
                        ELSE property_data
    /\ given' = [op |-> "_get_property_details", of |-> given.op, fields |-> property_data]
    /\ UNCHANGED <<analysis, notFin>>

\* an entry point is called on the record just constructed
Analysed(op, args, r) ==
    /\ analysis = NoAnalysis
    /\ analysis' = [op |-> op, args |-> args, exc |-> r.exc, value |-> r.value]
    /\ UNCHANGED <<property_data, given, notFin>>

CalculateMetrics(down_payment_percentage, interest_rate, loan_term_years) ==
    Analysed("calculate_metrics",
             <<down_payment_percentage, interest_rate, loan_term_years>>,
             calculate_metrics(property_data, down_payment_percentage,
                               interest_rate, loan_term_years))

CalculateMultipleScenarios ==
    Analysed("calculate_multiple_scenarios", <<>>,
             calculate_multiple_scenarios(property_data))

PerformStressTest ==
    Analysed("perform_stress_test", <<>>, perform_stress_test(property_data))

NextFin ==
    \/ \E price \in Prices, monthly_rent \in MonthlyRents, annual_rent \in AnnualRents :
          NewProperty(price, monthly_rent, annual_rent)
    \/ \E down_payment_percentage \in DownPaymentPercentages,
          interest_rate \in InterestRates, loan_term_years \in LoanTermYears :
          CalculateMetrics(down_payment_percentage, interest_rate, loan_term_years)
    \/ CalculateMultipleScenarios
    \/ PerformStressTest
    \/ Normalize
    \/ \E kind \in {"ok", "failed"}, rent_text \in PageRents : ZillowDetails(kind, rent_text)
    \/ \E kind \in {"ok", "failed"}, noi \in PageNOIs, square_feet \in SquareFeet, cap_rate \in TypicalCapRates :
          LoopNetDetails(kind, noi, square_feet, cap_rate)

SpecFin == InitFin /\ [][NextFin]_vars

\* the three shapes of a result of calculate_metrics
ErrorResult(m) == DOMAIN m = {"error"}
PartialResult(m) ==
    DOMAIN m = {"error", "down_payment", "loan_amount", "monthly_mortgage_payment"}
FullResult(m) == "error" \notin DOMAIN m /\ "risk_level" \in DOMAIN m

\* C9: the entry points of the engine are total.  Whatever the record and
\* the financing parameters (a down payment of 0, a rate of 0 and a term of
\* 0 included), the call returns a full, partial or error result and no
\* exception leaves it.
C9_EntryPointsTotal ==
    /\ analysis.exc = ""
    /\ analysis.op = "calculate_metrics"
        => \/ ErrorResult(analysis.value)
           \/ PartialResult(analysis.value)
           \/ FullResult(analysis.value)

\* C20: calculate_metrics on a record whose price is None, 0 or negative
\* returns the error field alone, with no computed metric, whatever the
\* rents, the down payment, the rate and the term.
C20_PriceRequired ==
    (analysis.op = "calculate_metrics"
        /\ (property_data.price = PyNone \/ property_data.price.n <= 0))
        => /\ analysis.exc = ""
           /\ DOMAIN analysis.value = {"error"}

\* C20's case: a negative price with rent, and a down payment, a rate and
\* a term of 0; the result is the error field
C20_Witness ==
    /\ analysis.op = "calculate_metrics"
    /\ analysis.args = <<0, PyInt(0), 0>>
    /\ property_data.price = PyInt(-120000)
    /\ property_data.monthly_rent = PyInt(2000)
    /\ analysis.exc = ""
    /\ DOMAIN analysis.value = {"error"}

\* the last call was perform_stress_test and gave the three scenarios
Stressed ==
    /\ analysis.op = "perform_stress_test"
    /\ analysis.exc = ""
    /\ "error" \notin DOMAIN analysis.value

\* C23: in every result of perform_stress_test that is not the error
\* result, still_profitable of each scenario is true iff its
\* monthly_cash_flow is above 0, passed_all_tests is the conjunction of the
\* three flags, and worst_case_monthly_cash_flow is the cash flow of the
\* combined stress.
C23_StressSummary ==
    Stressed =>
        LET t == analysis.value
            tests == <<t.increased_vacancy, t.interest_rate_increase, t.combined_stress>>
        IN  /\ DOMAIN t = {"increased_vacancy", "interest_rate_increase", "combined_stress", "summary"}
            /\ \A n \in 1..3 : tests[n].still_profitable <=> tests[n].monthly_cash_flow > 0
            /\ t.summary.passed_all_tests <=> \A n \in 1..3 : tests[n].still_profitable
            /\ t.summary.worst_case_monthly_cash_flow = t.combined_stress.monthly_cash_flow

\* C23's case: the vacancy scenario is profitable, the other two are not,
\* and the summary says not all tests passed
C23_Witness ==
    /\ Stressed
    /\ analysis.value.increased_vacancy.monthly_cash_flow > 0
    /\ analysis.value.increased_vacancy.still_profitable
    /\ analysis.value.interest_rate_increase.monthly_cash_flow < 0
    /\ ~analysis.value.interest_rate_increase.still_profitable
    /\ ~analysis.value.combined_stress.still_profitable
    /\ ~analysis.value.summary.passed_all_tests
    /\ analysis.value.summary.worst_case_monthly_cash_flow < 0

\* the monthly cash flow of the record at the default parameters
BaseCashFlow == calculate_metrics(property_data, 2000, PyNone, DEFAULT_MORTGAGE_TERM_YEARS).value.monthly_cash_flow

\* C24: stress degradation is monotone.  For a record with price > 0 and
\* rent above 0, the cash flow of the combined stress is at most that of
\* the increased vacancy, which is at most the base cash flow at the
\* defaults, and at most that of the interest rate increase; the worst
\* case is the least of the scenarios.
C24_MonotoneDegradation ==
    (analysis.op = "perform_stress_test"
        /\ property_data.price # PyNone /\ property_data.price.n > 0
        /\ property_data.monthly_rent # PyNone /\ property_data.monthly_rent.n > 0)
        => /\ Stressed
           /\ LET t == analysis.value
                  worst == t.summary.worst_case_monthly_cash_flow
              IN  /\ t.combined_stress.monthly_cash_flow <= t.increased_vacancy.monthly_cash_flow
                  /\ t.increased_vacancy.monthly_cash_flow <= BaseCashFlow
                  /\ t.combined_stress.monthly_cash_flow <= t.interest_rate_increase.monthly_cash_flow
                  /\ worst <= t.increased_vacancy.monthly_cash_flow
                  /\ worst <= t.interest_rate_increase.monthly_cash_flow
                  /\ worst <= t.combined_stress.monthly_cash_flow

\* C24's case: price 300000 and monthly rent 2000 at the defaults: base
\* -162, increased vacancy -262, interest rate increase -478, combined -628
C24_Witness ==
    /\ Stressed
    /\ property_data.price = PyInt(300000)
    /\ property_data.monthly_rent = PyInt(2000)
    /\ BaseCashFlow = -162
    /\ analysis.value.increased_vacancy.monthly_cash_flow = -262
    /\ analysis.value.interest_rate_increase.monthly_cash_flow = -478
    /\ analysis.value.combined_stress.monthly_cash_flow = -628

\* a rent the engine can use: present and not 0
Available(rent) == rent # PyNone /\ rent.n # 0

\* the last call was calculate_metrics on a record with a price above 0
Priced == analysis.op = "calculate_metrics" /\ property_data.price # PyNone /\ property_data.price.n > 0

\* C21: calculate_metrics on a record with price > 0 and neither rent
\* available returns the partial result: the error flag, down_payment =
\* price * pct, loan_amount = price - down_payment and
\* monthly_mortgage_payment, and nothing else.  A record with a rent
\* available never yields the partial result.
C21_PartialResult ==
    Priced =>
        IF ~Available(property_data.monthly_rent) /\ ~Available(property_data.annual_rent)
        THEN /\ analysis.exc = ""
             /\ PartialResult(analysis.value)
             /\ analysis.value.down_payment
                    = ((property_data.price.n \div 100) * analysis.args[1]) \div 100
             /\ analysis.value.loan_amount
                    = property_data.price.n - analysis.value.down_payment
        ELSE ~PartialResult(analysis.value)

\* the contributions of the four checks to the score of a full result
CapRatePoints(m) == IF m.cap_rate < 400 THEN 2 ELSE IF m.cap_rate < 600 THEN 1 ELSE 0
CashOnCashPoints(m) ==
    IF m.cash_on_cash_return < 400 THEN 2 ELSE IF m.cash_on_cash_return < 800 THEN 1 ELSE 0
CoveragePoints(m) ==
    IF m.debt_service_coverage_ratio < 100 THEN 3
    ELSE IF m.debt_service_coverage_ratio < 125 THEN 2
    ELSE IF m.debt_service_coverage_ratio < 150 THEN 1 ELSE 0
OnePercentPoints(m) == IF m.one_percent_rule_passed THEN 0 ELSE 1

\* the reasons of the cap-rate, cash-on-cash, coverage and 1% checks
CapRateReasons == {"Low cap rate", "Moderate cap rate"}
CashOnCashReasons == {"Low cash on cash return", "Moderate cash on cash return"}
CoverageReasons ==
    {"DSCR below 1.0 (negative cash flow)", "Low DSCR (tight cash flow)", "Moderate DSCR"}
OnePercentReasons == {"Does not meet 1% rule"}
ReasonSets == <<CapRateReasons, CashOnCashReasons, CoverageReasons, OnePercentReasons>>

\* the number of the check a reason belongs to
CheckOf(reason) == CHOOSE n \in 1..4 : reason \in ReasonSets[n]

\* C22: in every full result of calculate_metrics, risk_score is the sum of
\* the contributions of the checks that are triggered, risk_factors holds
\* one reason per triggered check, in the order of the checks, and
\* risk_level is Low iff the score is at most 1, Moderate iff it is 2 to 4
\* and High iff it is 5 or more.
C22_RiskScore ==
    (analysis.op = "calculate_metrics" /\ analysis.exc = "" /\ FullResult(analysis.value))
        => LET m == analysis.value
               points == <<CapRatePoints(m), CashOnCashPoints(m), CoveragePoints(m), OnePercentPoints(m)>>
           IN  /\ m.risk_score = points[1] + points[2] + points[3] + points[4]
               /\ \A n \in 1..4 :
                      Cardinality({i \in 1..Len(m.risk_factors) : m.risk_factors[i] \in ReasonSets[n]})
                          = IF points[n] > 0 THEN 1 ELSE 0
               /\ \A i \in 1..Len(m.risk_factors) :
                      \E n \in 1..4 : m.risk_factors[i] \in ReasonSets[n]
               /\ \A i, j \in 1..Len(m.risk_factors) :
                      i < j => CheckOf(m.risk_factors[i]) < CheckOf(m.risk_factors[j])
               /\ m.risk_level = "Low" <=> m.risk_score <= 1
               /\ m.risk_level = "Moderate" <=> (2 <= m.risk_score /\ m.risk_score <= 4)
               /\ m.risk_level = "High" <=> m.risk_score >= 5

\* C22's case: a full result where the cap-rate check is not triggered and
\* the other three are, for 1 + 2 + 1 = 4, Moderate
C22_Witness ==
    /\ analysis.op = "calculate_metrics"
    /\ analysis.exc = ""
    /\ FullResult(analysis.value)
    /\ analysis.value.cap_rate = 640
    /\ analysis.value.risk_factors
           = <<"Moderate cash on cash return", "Low DSCR (tight cash flow)", "Does not meet 1% rule">>
    /\ analysis.value.risk_score = 4
    /\ analysis.value.risk_level = "Moderate"

\* C30: a full result with a positive down payment, a positive loan amount
\* and a negative monthly cash flow has a coverage ratio below 1.0 and a
\* cash on cash return below 4, hence a risk score of 5 or more and the
\* risk level High.
C30_NegativeCashFlowHigh ==
    (/\ analysis.op = "calculate_metrics"
     /\ analysis.exc = ""
     /\ FullResult(analysis.value)
     /\ analysis.value.down_payment > 0
     /\ analysis.value.loan_amount > 0
     /\ analysis.value.monthly_cash_flow < 0)
    => /\ analysis.value.debt_service_coverage_ratio < 100
       /\ analysis.value.cash_on_cash_return < 400
       /\ analysis.value.risk_score >= 5
       /\ analysis.value.risk_level = "High"

\* a loss of 162 a month on 300000 at 20% down: cap rate 4.8, score 7
C30_Witness ==
    /\ analysis.op = "calculate_metrics"
    /\ analysis.exc = ""
    /\ FullResult(analysis.value)
    /\ analysis.value.down_payment = 60000
    /\ analysis.value.loan_amount = 240000
    /\ analysis.value.monthly_cash_flow = -162
    /\ analysis.value.risk_score = 7
    /\ analysis.value.risk_level = "High"

\* the four fields normalization derives
Derived(r) == <<r.monthly_rent, r.annual_rent, r.rental_yield, r.price_to_rent_ratio>>

\* C25: a record constructed with exactly one of monthly_rent and
\* annual_rent supplied has both after construction, with annual_rent =
\* monthly_rent * 12; and constructing a new record from the fields of a
\* constructed record changes none of monthly_rent, annual_rent,
\* rental_yield and price_to_rent_ratio.
C25_Normalization ==
    /\ (/\ given.op = "Property"
        /\ (given.fields.monthly_rent = PyNone) # (given.fields.annual_rent = PyNone))
       => /\ property_data.monthly_rent # PyNone
          /\ property_data.annual_rent # PyNone
          /\ property_data.annual_rent.n = property_data.monthly_rent.n * 12
    /\ (given.op = "vars" /\ given.of = "Property")
       => Derived(property_data) = Derived(given.fields)

\* C26: every record with a price above 0 and an annual rent, the records
\* _get_property_details has filled in included, has rental_yield =
\* annual_rent / price * 100 and price_to_rent_ratio = price / annual_rent.
C26_YieldConsistency ==
    (/\ truth(property_data.price)
     /\ property_data.price.n > 0
     /\ property_data.annual_rent # PyNone)
    => /\ property_data.rental_yield
              = PyInt((property_data.annual_rent.n * BasisPoints) \div property_data.price.n)
       /\ property_data.price_to_rent_ratio
              = PyInt((property_data.price.n * 100) \div property_data.annual_rent.n)

(***************************************************************************)
(* The listing: DataAggregator.filter_properties and sort_properties over  *)
(* the records the application holds.  A record carries the fields the two *)
(* functions read; its financial_metrics is what calculate_metrics gave    *)
(* for it (app.py, calculate_for_property), or the empty dictionary of the *)
(* dataclass when it was never analysed.  Cap rates and yields are in      *)
(* basis points as in the engine above.                                    *)
(***************************************************************************)

\* the longest list of records
MaxListing == 3

PyList(items) == [type |-> "list", items |-> items]

\* the characters of the words of the model
letters(word) ==
    CASE word = "Low" -> <<"L", "o", "w">>
      [] word = "Moderate" -> <<"M", "o", "d", "e", "r", "a", "t", "e">>
      [] word = "High" -> <<"H", "i", "g", "h">>
      [] word = "" -> <<>>

\* dict.get(key, default)
get(d, key, default) == IF key \in DOMAIN d THEN d[key] ELSE default

\* the truth value of a dictionary
truth_dict(d) == DOMAIN d # {}

\* field(default_factory=dict)
EmptyDict == [k \in {} |-> 0]

\* app.py, calculate_for_property: the metrics of the default financing are
\* stored on the record; the record is left as it is when the engine raises
calculate_for_property(prop) ==
    TheOne({IF metrics.exc = ""
            THEN [prop EXCEPT !.financial_metrics = metrics.value]
            ELSE prop : metrics \in {calculate_metrics(prop, 2000, PyNone, 30)}})

\* a record as a scraper builds it
Listing(id, source, price, monthly_rent, cap_rate, rest) ==
    Property(price, monthly_rent, PyNone)
        @@ [id |-> id, source |-> source, cap_rate |-> cap_rate,
            financial_metrics |-> EmptyDict]
        @@ rest

\* the optional fields of a residential and of a commercial record
Residential ==
    [property_type |-> PyStr(<<"A", "b">>), bedrooms |-> PyInt(3),
     bathrooms |-> PyInt(2), square_feet |-> PyInt(1500),
     year_built |-> PyInt(1990), risk_level |-> PyNone,
     city |-> PyStr(<<"A", "b">>), state |-> PyStr(<<"B">>),
     zip_code |-> PyStr(<<"1">>)]
Commercial ==
    [property_type |-> PyStr(<<"b">>), bedrooms |-> PyNone,
     bathrooms |-> PyNone, square_feet |-> PyInt(0),
     year_built |-> PyNone, risk_level |-> PyStr(<<"L", "o", "w">>),
     city |-> PyStr(<<"b">>), state |-> PyStr(<<"A">>),
     zip_code |-> PyStr(<<>>)]

\* the records of the model: analysed with rent (full metrics), analysed
\* with a listed cap rate of 3%, analysed at price 0 (error payload),
\* analysed without rent (partial payload), never analysed and without a
\* price, and a cheaper one with full metrics
Listings ==
    {calculate_for_property(Listing(1, "Zillow", PyInt(300000), PyInt(2000), PyNone, Residential)),
     calculate_for_property(Listing(2, "LoopNet", PyInt(300000), PyInt(2000), PyInt(300), Commercial)),
     calculate_for_property(Listing(3, "Zillow", PyInt(0), PyNone, PyNone, Residential)),
     calculate_for_property(Listing(4, "LoopNet", PyInt(120000), PyNone, PyNone, Commercial)),
     Listing(5, "Zillow", PyNone, PyNone, PyNone, Commercial),
     calculate_for_property(Listing(6, "LoopNet", PyInt(120000), PyInt(1000), PyNone, Residential))}

\* the lists of at most MaxListing records
ListingLists == UNION {[1..n -> Listings] : n \in 0..MaxListing}

\* "key in filters and filters[key] is not None"
is_set(filters, key) == key \in DOMAIN filters /\ filters[key] # PyNone
\* "key in filters and filters[key]"
is_given(filters, key) == key \in DOMAIN filters /\ truth(filters[key])

\* [x.lower() for x in words]
lower_all(words) == [j \in 1..Len(words) |-> lower(words[j])]

\* a bound that a field of 0 may pass
at_least_not_none(value, bound) == value # PyNone /\ value.n >= bound.n

\* "p.field and p.field >= bound", "p.field and p.field <= bound"
at_least(value, bound) == truth(value) /\ value.n >= bound.n
at_most(value, bound) == truth(value) /\ value.n <= bound.n

\* lines 239-240 and 246-247: the predicates of the cap-rate filters
min_cap_rate(p_, bound) ==
    \/ at_least(p_.cap_rate, bound)
    \/ /\ truth_dict(p_.financial_metrics)
       /\ get(p_.financial_metrics, "cap_rate", 0) >= bound.n
max_cap_rate(p_, bound) ==
    \/ at_most(p_.cap_rate, bound)
    \/ /\ truth_dict(p_.financial_metrics)
       /\ get(p_.financial_metrics, "cap_rate", 0) <= bound.n

\* line 268: the predicate of the cash-flow filter
min_cash_flow(p_, bound) ==
    /\ truth_dict(p_.financial_metrics)
    /\ get(p_.financial_metrics, "monthly_cash_flow", 0) >= bound.n

\* lines 276-277: the predicate of the risk-level filter
in_risk_levels(p_, risk_levels) ==
    \/ /\ truth(p_.risk_level)
       /\ lower(p_.risk_level.s) \in Range(risk_levels)
    \/ /\ truth_dict(p_.financial_metrics)
       /\ lower(letters(get(p_.financial_metrics, "risk_level", ""))) \in Range(risk_levels)

\* lines 285-287: the predicate of the location filter
in_locations(p_, locations) ==
    \/ truth(p_.city) /\ lower(p_.city.s) \in Range(lower_all(locations))
    \/ truth(p_.state) /\ lower(p_.state.s) \in Range(lower_all(locations))
    \/ truth(p_.zip_code) /\ p_.zip_code.s \in Range(locations)

\* the filter keys in the order the function applies them
FilterKeys ==
    <<"sources", "property_types", "min_price", "max_price", "min_bedrooms",
      "max_bedrooms", "min_rental_yield", "max_rental_yield", "min_cap_rate",
      "max_cap_rate", "min_square_feet", "max_square_feet", "min_year_built",
      "max_year_built", "min_cash_flow", "risk_levels", "locations">>

\* every filter applied only when its value is truthy
applies_truthy(filters, key) == is_given(filters, key)

\* whether the filter of a key is applied: the list-valued filters when the
\* list is non-empty, the range filters when the bound is not None
applies(filters, key) ==
    IF key \in {"sources", "property_types", "risk_levels", "locations"}
    THEN is_given(filters, key)
    ELSE is_set(filters, key)

\* the condition of the list comprehension of a key
keeps(key, p_, v) ==
    CASE key = "sources" -> p_.source \in Range(v.items)
      [] key = "property_types" ->
            /\ truth(p_.property_type)
            /\ \E j \in 1..Len(v.items) :
                   contains(lower(v.items[j]), lower(p_.property_type.s))
      [] key = "min_price" -> at_least(p_.price, v)
      [] key = "max_price" -> at_most(p_.price, v)
      [] key = "min_bedrooms" -> at_least(p_.bedrooms, v)
      [] key = "max_bedrooms" -> at_most(p_.bedrooms, v)
      [] key = "min_rental_yield" -> at_least(p_.rental_yield, v)
      [] key = "max_rental_yield" -> at_most(p_.rental_yield, v)
      [] key = "min_cap_rate" -> min_cap_rate(p_, v)
      [] key = "max_cap_rate" -> max_cap_rate(p_, v)
      [] key = "min_square_feet" -> at_least(p_.square_feet, v)
      [] key = "max_square_feet" -> at_most(p_.square_feet, v)
      [] key = "min_year_built" -> at_least(p_.year_built, v)
      [] key = "max_year_built" -> at_most(p_.year_built, v)
      [] key = "min_cash_flow" -> min_cash_flow(p_, v)
      [] key = "risk_levels" -> in_risk_levels(p_, lower_all(v.items))
      [] key = "locations" -> in_locations(p_, v.items)

\* one "if key in filters ...: filtered_properties = [p for p in ...]"
filter_step(filtered_properties, filters, key) ==
    IF applies(filters, key)
    THEN LET keep(p_) == keeps(key, p_, filters[key])
         IN  SelectSeq(filtered_properties, keep)
    ELSE filtered_properties

\* the steps of keys n..17 applied in turn
RECURSIVE filter_from(_, _, _)
filter_from(filtered_properties, filters, n) ==
    IF n > Len(FilterKeys)
    THEN filtered_properties
    ELSE filter_from(filter_step(filtered_properties, filters, FilterKeys[n]), filters, n + 1)

\* DataAggregator.filter_properties: the returned list
filter_properties(properties, filters) == filter_from(properties, filters, 1)

\* the filters dictionaries of the model: the empty one, each key with a
\* value that applies, keys with None or [] (present, not applied), and
\* some with two keys
FilterSpecs ==
    {EmptyDict,
     "sources" :> PyList(<<"Zillow">>),
     "sources" :> PyList(<<>>),
     "property_types" :> PyList(<<<<"A">>>>),
     "property_types" :> PyNone,
     "min_price" :> PyInt(200000),
     "min_price" :> PyInt(0),
     "min_price" :> PyInt(-1),
     "min_price" :> PyNone,
     "max_price" :> PyInt(200000),
     "min_bedrooms" :> PyInt(3),
     "max_bedrooms" :> PyInt(3),
     "min_rental_yield" :> PyInt(900),
     "max_rental_yield" :> PyInt(900),
     "min_cap_rate" :> PyInt(400),
     "min_cap_rate" :> PyInt(0),
     "min_cap_rate" :> PyInt(-100),
     "max_cap_rate" :> PyInt(400),
     "max_cap_rate" :> PyInt(1000),
     "min_square_feet" :> PyInt(1000),
     "max_square_feet" :> PyInt(2000),
     "min_year_built" :> PyInt(1980),
     "max_year_built" :> PyInt(2000),
     "min_cash_flow" :> PyInt(50),
     "min_cash_flow" :> PyInt(0),
     "min_cash_flow" :> PyInt(-200),
     "risk_levels" :> PyList(<<<<"H", "i", "g", "h">>>>),
     "risk_levels" :> PyList(<<<<"l", "o", "w">>, <<"M", "o", "d", "e", "r", "a", "t", "e">>>>),
     "locations" :> PyList(<<<<"a", "B">>>>),
     "locations" :> PyList(<<<<"a">>, <<"1">>>>),
     ("sources" :> PyList(<<"LoopNet">>)) @@ ("min_price" :> PyInt(200000)),
     ("min_cap_rate" :> PyInt(400)) @@ ("max_cap_rate" :> PyInt(500)),
     ("max_price" :> PyInt(200000)) @@ ("min_cash_flow" :> PyInt(0)) @@ ("locations" :> PyList(<<>>))}

\* the keys of the sort_keys dictionary, lines 160-171
sort_keys ==
    {"price", "price_asc", "rental_yield", "cap_rate", "price_to_rent",
     "square_feet", "bedrooms", "bathrooms", "year_built", "cash_flow",
     "cash_on_cash", "risk_score"}

\* "p.field if p.field is not None else default"
or_default(value, default) == IF value # PyNone THEN value.n ELSE default

\* "p.financial_metrics.get(key, default) if p.financial_metrics else default"
metric_or_default(p_, key, default) ==
    IF truth_dict(p_.financial_metrics)
    THEN get(p_.financial_metrics, key, default)
    ELSE default

\* sort_keys[sort_by](p)
key_func(sort_by, p_) ==
    CASE sort_by \in {"price", "price_asc"} -> or_default(p_.price, inf)
      [] sort_by = "rental_yield" -> or_default(p_.rental_yield, -inf)
      [] sort_by = "cap_rate" -> or_default(p_.cap_rate, -inf)
      [] sort_by = "price_to_rent" -> or_default(p_.price_to_rent_ratio, inf)
      [] sort_by = "square_feet" -> or_default(p_.square_feet, 0)
      [] sort_by = "bedrooms" -> or_default(p_.bedrooms, 0)
      [] sort_by = "bathrooms" -> or_default(p_.bathrooms, 0)
      [] sort_by = "year_built" -> or_default(p_.year_built, 0)
      [] sort_by = "cash_flow" -> metric_or_default(p_, "monthly_cash_flow", 0)
      [] sort_by = "cash_on_cash" -> metric_or_default(p_, "cash_on_cash_return", 0)
      [] sort_by = "risk_score" -> metric_or_default(p_, "risk_score", inf)

\* x put into a list that sorted() has ordered so far: after every record
\* that does not come strictly after it, so that equal keys keep their order
insert(list, x, sort_by, reverse) ==
    LET later(y) == IF reverse
                    THEN key_func(sort_by, x) > key_func(sort_by, y)
                    ELSE key_func(sort_by, x) < key_func(sort_by, y)
        at == IF \E i \in 1..Len(list) : later(list[i])
              THEN CHOOSE i \in 1..Len(list) :
                       later(list[i]) /\ \A j \in 1..(i - 1) : ~later(list[j])
              ELSE Len(list) + 1
    IN  SubSeq(list, 1, at - 1) \o <<x>> \o SubSeq(list, at, Len(list))

\* sorted(properties, key=sort_keys[sort_by], reverse=reverse): a stable sort
RECURSIVE sorted(_, _, _)
sorted(properties, sort_by, reverse) ==
    IF properties = <<>>
    THEN <<>>
    ELSE insert(sorted(SubSeq(properties, 1, Len(properties) - 1), sort_by, reverse),
                properties[Len(properties)], sort_by, reverse)

\* the reverse flag with the inversion of risk_score only
reverse_flag_risk_only(sort_by, reverse) ==
    IF sort_by = "risk_score" THEN ~reverse ELSE reverse

\* the reverse flag with the override of price_asc only
reverse_flag_price_asc_only(sort_by, reverse) ==
    IF sort_by = "price_asc" THEN FALSE ELSE reverse

\* lines 178-182: the reverse flag of a recognised key
reverse_flag(sort_by, reverse) ==
    CASE sort_by = "price_asc" -> FALSE
      [] sort_by = "risk_score" -> ~reverse
      [] OTHER -> reverse

\* sort_properties with every key it does not know sorted as given, unsorted
sort_properties_unsorted(properties, sort_by, reverse) ==
    IF properties = <<>>
    THEN <<>>
    ELSE IF sort_by \in sort_keys
         THEN sorted(properties, sort_by, reverse_flag(sort_by, reverse))
         ELSE properties

\* DataAggregator.sort_properties: the returned list
sort_properties(properties, sort_by, reverse) ==
    IF properties = <<>>
    THEN <<>>
    ELSE IF sort_by \in sort_keys
         THEN sorted(properties, sort_by, reverse_flag(sort_by, reverse))
         ELSE sorted(properties, "price", reverse)

\* the sort_by arguments of the model: the keys of sort_keys and two others
SortBys == sort_keys \cup {"lot_size", ""}

\* the state of a caller of the two functions: the list it holds, the last
\* call it made on it, and what that call returned
NoListing == [properties |-> <<>>, op |-> "init", args |-> <<>>, result |-> <<>>]

InitList ==
    /\ IdleKey
    /\ IdleFetch
    /\ IdleThreads
    /\ IdleFin
    /\ now = 0 /\ use_disk = TRUE /\ _cache = EmptyMap /\ files = EmptyMap
    /\ last = NoCall
    /\ browse = NoListing

notList == <<cacheVars, keyVars, fetchVars, threadVars, finVars>>

\* app.py lines 68-77: the caller takes the records of a search, analysed
Search(properties) ==
    /\ browse.op = "init"
    /\ browse' = [NoListing EXCEPT !.properties = properties, !.op = "none"]
    /\ UNCHANGED notList

\* filter_properties(properties, filters); the function copies the list
\* (line 200) and writes to the copy only
FilterProperties(filters) ==
    /\ browse.op = "none"
    /\ browse' = [browse EXCEPT !.op = "filter_properties",
                                !.args = <<browse.properties, filters>>,
                                !.result = filter_properties(browse.properties, filters)]
    /\ UNCHANGED notList

\* sort_properties(properties, sort_by, reverse); sorted() builds a new list
SortProperties(sort_by, reverse) ==
    /\ browse.op = "none"
    /\ browse' = [browse EXCEPT !.op = "sort_properties",
                                !.args = <<browse.properties, sort_by, reverse>>,
                                !.result = sort_properties(browse.properties, sort_by, reverse)]
    /\ UNCHANGED notList

NextList ==
    \/ \E properties \in ListingLists : Search(properties)
    \/ \E filters \in FilterSpecs : FilterProperties(filters)
    \/ \E sort_by \in SortBys, reverse \in BOOLEAN : SortProperties(sort_by, reverse)

SpecList == InitList /\ [][NextList]_vars

\* the ids of the records of a list, in order
Ids(list) == [i \in 1..Len(list) |-> list[i].id]

\* the last call was filter_properties / sort_properties
Filtered == browse.op = "filter_properties"
Sorted == browse.op = "sort_properties"

\* the key is present in the dictionary with a value that is neither None
\* nor an empty list
Present(filters, key) ==
    /\ key \in DOMAIN filters
    /\ filters[key] # PyNone
    /\ filters[key].type = "list" => filters[key].items # <<>>

\* the record satisfies every filter that is present
SatisfiesAll(p_, filters) ==
    \A n \in 1..Len(FilterKeys) :
        Present(filters, FilterKeys[n]) => keeps(FilterKeys[n], p_, filters[FilterKeys[n]])

\* C13: filter_properties is the conjunction of the filters present.  The
\* result is the input records that satisfy every filter whose key is
\* present with a value that is not None (not empty), in input order; with
\* an empty dictionary it is all the input records; and the list the caller
\* passed is as it was.
C13_Conjunction ==
    Filtered =>
        LET properties == browse.args[1]
            filters == browse.args[2]
            satisfies(p_) == SatisfiesAll(p_, filters)
        IN  /\ browse.result = SelectSeq(properties, satisfies)
            /\ filters = EmptyDict => browse.result = properties
            /\ browse.properties = properties

\* C13's case: two filters are present, one record fails the first, one the
\* second, and the one between them that satisfies both is the result
C13_Witness ==
    /\ Filtered
    /\ DOMAIN browse.args[2] = {"sources", "min_price"}
    /\ Ids(browse.args[1]) = <<1, 2, 4>>
    /\ Ids(browse.result) = <<2>>

\* C14: the result of filter_properties(records, {min_price: m}) holds no
\* record with price < m and no record whose price is None or 0, whatever m
\* is (0 and negative included).
C14_MinPrice ==
    (Filtered /\ DOMAIN browse.args[2] = {"min_price"} /\ browse.args[2]["min_price"] # PyNone)
        => \A i \in 1..Len(browse.result) :
               /\ browse.result[i].price # PyNone
               /\ browse.result[i].price.n # 0
               /\ browse.result[i].price.n >= browse.args[2]["min_price"].n

\* C14's case: min_price is -1 and the list holds a record priced 0, one
\* without a price and one priced 120000; only the last is returned
C14_Witness ==
    /\ Filtered
    /\ browse.args[2] = ("min_price" :> PyInt(-1))
    /\ Ids(browse.args[1]) = <<3, 5, 4>>
    /\ Ids(browse.result) = <<4>>

\* the record has no cap rate: neither the field nor the computed entry
NoCapRate(p_) == p_.cap_rate = PyNone /\ "cap_rate" \notin DOMAIN p_.financial_metrics
\* the record has no computed cash flow
NoCashFlow(p_) == "monthly_cash_flow" \notin DOMAIN p_.financial_metrics

\* C15: missing data never passes a range check on computed metrics.  When
\* min_cash_flow, min_cap_rate or max_cap_rate is set, no record of the
\* result lacks the value the filter reads (the field and the entry of
\* financial_metrics both), whatever the threshold.
C15_MissingDataExcluded ==
    Filtered =>
        \A i \in 1..Len(browse.result) :
            /\ (is_set(browse.args[2], "min_cap_rate") \/ is_set(browse.args[2], "max_cap_rate"))
                  => ~NoCapRate(browse.result[i])
            /\ is_set(browse.args[2], "min_cash_flow") => ~NoCashFlow(browse.result[i])

\* the direct cap_rate of the record is present and outside the range asked
OutsideRange(p_, filters) ==
    /\ p_.cap_rate # PyNone
    /\ \/ is_set(filters, "min_cap_rate") /\ p_.cap_rate.n < filters["min_cap_rate"].n
       \/ is_set(filters, "max_cap_rate") /\ p_.cap_rate.n > filters["max_cap_rate"].n

\* C16: the cap-rate filters read the computed cap rate only when the
\* record has no cap_rate of its own.  A record whose own cap_rate is
\* present and outside the range is not in the result, whatever its
\* computed cap rate.
C16_DirectCapRateFirst ==
    Filtered =>
        \A i \in 1..Len(browse.result) : ~OutsideRange(browse.result[i], browse.args[2])

\* the result holds the records of the input, each as often as the input
Permutation(result, properties) ==
    /\ Len(result) = Len(properties)
    /\ \A x \in Listings : Count(result, x) = Count(properties, x)

\* the price of a record, a missing one counting as +infinity
PriceOrInfinity(p_) == IF p_.price = PyNone THEN inf ELSE p_.price.n

\* the computed risk score of a record, a missing one counting as +infinity
RiskScoreOrInfinity(p_) ==
    IF "risk_score" \in DOMAIN p_.financial_metrics
    THEN p_.financial_metrics["risk_score"]
    ELSE inf

\* C17: sort_properties by 'price_asc' gives the records in non-decreasing
\* price order whether reverse is true or false, the records without a
\* price last.
C17_PriceAscending ==
    (Sorted /\ browse.args[2] = "price_asc")
        => /\ Permutation(browse.result, browse.args[1])
           /\ \A i, j \in 1..Len(browse.result) :
                  i < j => /\ PriceOrInfinity(browse.result[i]) <= PriceOrInfinity(browse.result[j])
                           /\ browse.result[i].price = PyNone => browse.result[j].price = PyNone

\* C17's case: reverse is true and the list is in descending price order
\* behind a record without a price; the result is ascending, that record last
C17_Witness ==
    /\ Sorted
    /\ browse.args[2] = "price_asc"
    /\ browse.args[3] = TRUE
    /\ Ids(browse.args[1]) = <<5, 1, 6>>
    /\ Ids(browse.result) = <<6, 1, 5>>

\* C18: sort_properties by 'risk_score' inverts reverse.  With reverse
\* true the result is in non-decreasing risk score order, the records
\* without a computed risk score last; with reverse false it is in
\* non-increasing order.
C18_RiskScoreInverted ==
    (Sorted /\ browse.args[2] = "risk_score")
        => /\ Permutation(browse.result, browse.args[1])
           /\ \A i, j \in 1..Len(browse.result) :
                  i < j =>
                     IF browse.args[3]
                     THEN /\ RiskScoreOrInfinity(browse.result[i]) <= RiskScoreOrInfinity(browse.result[j])
                          /\ "risk_score" \notin DOMAIN browse.result[i].financial_metrics
                               => "risk_score" \notin DOMAIN browse.result[j].financial_metrics
                     ELSE RiskScoreOrInfinity(browse.result[i]) >= RiskScoreOrInfinity(browse.result[j])

\* C18's case: reverse is true and the list holds, in this order, a record
\* with the partial payload, one of score 7 and one of score 4; the result
\* is score 4, score 7, no score
C18_Witness ==
    /\ Sorted
    /\ browse.args[2] = "risk_score"
    /\ browse.args[3] = TRUE
    /\ Ids(browse.args[1]) = <<4, 1, 6>>
    /\ Ids(browse.result) = <<6, 1, 4>>

\* the ten keys of the table of the specification
TableKeys ==
    {"price", "price_asc", "rental_yield", "cap_rate", "price_to_rent",
     "square_feet", "year_built", "cash_flow", "cash_on_cash", "risk_score"}

\* C19 as stated: for every sort_by outside the ten keys of the table the
\* result is the order of sorting by price with the given reverse flag.
C19_FallbackOutsideTable ==
    (Sorted /\ browse.args[2] \notin TableKeys)
        => browse.result = sort_properties(browse.args[1], "price", browse.args[3])

\* C19: for every sort_by that is not a key of sort_keys (the ten keys of
\* the table, "bedrooms" and "bathrooms") the result is the order of
\* sorting by price with the given reverse flag.
C19_FallbackUnrecognised ==
    (Sorted /\ browse.args[2] \notin TableKeys \cup {"bedrooms", "bathrooms"})
        => /\ browse.result = sort_properties(browse.args[1], "price", browse.args[3])
           /\ Permutation(browse.result, browse.args[1])
           /\ \A i, j \in 1..Len(browse.result) :
                  i < j =>
                     IF browse.args[3]
                     THEN PriceOrInfinity(browse.result[i]) >= PriceOrInfinity(browse.result[j])
                     ELSE PriceOrInfinity(browse.result[i]) <= PriceOrInfinity(browse.result[j])

\* C19's case: 'lot_size' with reverse true on a list in ascending price
\* order; the result is in descending price order
C19_Witness ==
    /\ Sorted
    /\ browse.args[2] = "lot_size"
    /\ browse.args[3] = TRUE
    /\ Ids(browse.args[1]) = <<3, 6, 1>>
    /\ Ids(browse.result) = <<1, 6, 3>>

=============================================================================
